---- MODULE Spec2Model ----
(***************************************************************************)
(* VerifyShot backend: the claim-verification and trust-scoring pipeline.  *)
(*                                                                         *)
(* One behaviour of Spec is one invocation of one exported operation,      *)
(* chosen by Invoke: the trust score engine on arbitrary arguments         *)
(* (lib/trustScore.ts), the documented end-to-end scenario, the            *)
(* POST /api/analyze request running analyzeImage, or getModelConsensus.   *)
(*                                                                         *)
(* Numbers are exact rationals [n, d] (d > 0, lowest terms); credibility   *)
(* and confidence values are carried in hundredths where they are stored   *)
(* in records. The source computes in IEEE doubles: where the exact value  *)
(* of 100 * raw is a rounding tie (x.5) the double may fall just below it. *)
(***************************************************************************)
EXTENDS Integers, Sequences, FiniteSets, TLC

(* ------------------------------ bounds --------------------------------- *)
\* longest source list handed to the trust score engine
MaxScoreSources == 2
\* longest source list a search returns to a job
MaxSources == 3
\* most claims a claim extraction returns
MaxClaims == 1
\* most per-claim scores aggregated on their own
MaxAggClaims == 2
\* longest JSON array in a reply to the claim extractor
MaxReplyItems == 4
\* longest item list in a search response
MaxItems == 2
\* chat requests in all
MaxChatRequests == 2

(* --------------------------- exact arithmetic -------------------------- *)
Abs(x) == IF x < 0 THEN -x ELSE x

RECURSIVE GCD(_, _)
GCD(a, b) == IF b = 0 THEN a ELSE GCD(b, a % b)

\* the rational n/d in lowest terms, d > 0
Q(n, d) ==
  LET g == GCD(Abs(n), d)
  IN  IF n = 0 THEN [n |-> 0, d |-> 1] ELSE [n |-> n \div g, d |-> d \div g]

LCM(a, b) == (a \div GCD(a, b)) * b

RAdd(x, y) ==
  LET l == LCM(x.d, y.d)
  IN  Q(x.n * (l \div x.d) + y.n * (l \div y.d), l)

RNeg(x) == [n |-> -x.n, d |-> x.d]
RSub(x, y) == RAdd(x, RNeg(y))
RMul(x, y) ==
  LET a == Q(x.n, y.d)
      b == Q(y.n, x.d)
  IN  Q(a.n * b.n, a.d * b.d)
RDivInt(x, k) == RMul(x, Q(1, k))
RLess(x, y) == x.n * y.d < y.n * x.d
RGeq(x, y) == ~RLess(x, y)
RAbs(x) == [n |-> Abs(x.n), d |-> x.d]
RMax(x, y) == IF RLess(x, y) THEN y ELSE x
RMin(x, y) == IF RLess(x, y) THEN x ELSE y
Zero == Q(0, 1)
One == Q(1, 1)
Hundredths(c) == Q(c, 100)

RECURSIVE RSum(_)
RSum(s) == IF s = <<>> THEN Zero ELSE RAdd(Head(s), RSum(Tail(s)))

Max(a, b) == IF a > b THEN a ELSE b
Min(a, b) == IF a < b THEN a ELSE b

\* Math.round: the integer nearest to x, halves rounded towards +infinity
MathRound(x) == (2 * x.n + x.d) \div (2 * x.d)

Filter(s, Test(_)) == SelectSeq(s, Test)
Map(s, F(_)) == [i \in 1..Len(s) |-> F(s[i])]

(* ------------------- domain reputation (search layer) ------------------ *)
\* a hostname is its sequence of dot-separated labels
DOMAIN_SCORES == {
    <<<<"reuters", "com">>, 95>>,
    <<<<"apnews", "com">>, 95>>,
    <<<<"ap", "org">>, 95>>,
    <<<<"bbc", "com">>, 92>>,
    <<<<"bbc", "co", "uk">>, 92>>,
    <<<<"nytimes", "com">>, 90>>,
    <<<<"washingtonpost", "com">>, 88>>,
    <<<<"theguardian", "com">>, 88>>,
    <<<<"wsj", "com">>, 88>>,
    <<<<"economist", "com">>, 90>>,
    <<<<"ft", "com">>, 90>>,
    <<<<"cnbc", "com">>, 85>>,
    <<<<"bloomberg", "com">>, 88>>,
    <<<<"forbes", "com">>, 78>>,
    <<<<"businessinsider", "com">>, 72>>,
    <<<<"marketwatch", "com">>, 78>>,
    <<<<"finance", "yahoo", "com">>, 72>>,
    <<<<"barrons", "com">>, 82>>,
    <<<<"nature", "com">>, 95>>,
    <<<<"science", "org">>, 95>>,
    <<<<"sciencedirect", "com">>, 92>>,
    <<<<"pubmed", "ncbi", "nlm", "nih", "gov">>, 95>>,
    <<<<"arxiv", "org">>, 85>>,
    <<<<"scholar", "google", "com">>, 85>>,
    <<<<"nih", "gov">>, 92>>,
    <<<<"cnn", "com">>, 75>>,
    <<<<"nbcnews", "com">>, 75>>,
    <<<<"abcnews", "go", "com">>, 75>>,
    <<<<"cbsnews", "com">>, 75>>,
    <<<<"foxnews", "com">>, 70>>,
    <<<<"msnbc", "com">>, 72>>,
    <<<<"usatoday", "com">>, 75>>,
    <<<<"latimes", "com">>, 80>>,
    <<<<"chicagotribune", "com">>, 78>>,
    <<<<"nypost", "com">>, 65>>,
    <<<<"politico", "com">>, 78>>,
    <<<<"thehill", "com">>, 76>>,
    <<<<"axios", "com">>, 78>>,
    <<<<"theatlantic", "com">>, 82>>,
    <<<<"vox", "com">>, 72>>,
    <<<<"npr", "org">>, 88>>,
    <<<<"pbs", "org">>, 88>>,
    <<<<"aljazeera", "com">>, 78>>,
    <<<<"dw", "com">>, 80>>,
    <<<<"france24", "com">>, 80>>,
    <<<<"scmp", "com">>, 75>>,
    <<<<"japantimes", "co", "jp">>, 78>>,
    <<<<"snopes", "com">>, 88>>,
    <<<<"factcheck", "org">>, 90>>,
    <<<<"politifact", "com">>, 88>>,
    <<<<"techcrunch", "com">>, 75>>,
    <<<<"theverge", "com">>, 72>>,
    <<<<"arstechnica", "com">>, 78>>,
    <<<<"wired", "com">>, 75>>,
    <<<<"wikipedia", "org">>, 70>>
}

LowerCase == [l \in {"WWW", "GOV", "EDU", "ORG", "COM"} |->
                CASE l = "WWW" -> "www" [] l = "GOV" -> "gov" [] l = "EDU" -> "edu"
                  [] l = "ORG" -> "org" [] l = "COM" -> "com"]
toLowerCase(h) ==
  [i \in 1..Len(h) |-> IF h[i] \in DOMAIN LowerCase THEN LowerCase[h[i]] ELSE h[i]]

\* hostname.replace(/^www\./, ""): case-sensitive, needs a dot after www
stripWww(h) == IF Len(h) >= 2 /\ h[1] = "www" THEN Tail(h) ELSE h

\* h.endsWith("." + suffix), suffix given as its labels
endsWith(h, suffix) ==
  /\ Len(h) > Len(suffix)
  /\ SubSeq(h, Len(h) - Len(suffix) + 1, Len(h)) = suffix

\* credibility in hundredths
credibilityForDomain(hostname) ==
  LET h == toLowerCase(stripWww(hostname))
      hit == {e \in DOMAIN_SCORES : e[1] = h}
  IN  IF hit # {} THEN (CHOOSE e \in hit : TRUE)[2]
      ELSE IF endsWith(h, <<"gov">>) \/ endsWith(h, <<"gov", "uk">>) THEN 92
      ELSE IF endsWith(h, <<"edu">>) THEN 85
      ELSE IF endsWith(h, <<"org">>) THEN 65
      ELSE 50

(* --------------------------- trust score engine ------------------------ *)
\* one day, 86400_000 ms in the source; the model counts time in seconds so
\* that a year of them stays within TLC's integers
DaySec == 86400

\* a Source as the engine reads it: credibilityScore in hundredths, date as
\* its age in days at the time of the call
Source(c, a) == [credibilityScore |-> c, age |-> a]

\* JavaScript x || dflt on a number: 0 is falsy
OrElse(c, dflt) == IF c = 0 THEN dflt ELSE Hundredths(c)

recencyOf(s) ==
  LET age == s.age * DaySec
  IN  IF age < 7 * DaySec THEN One
      ELSE IF age < 30 * DaySec THEN Q(9, 10)
      ELSE IF age < 365 * DaySec THEN Q(7, 10)
      ELSE Q(4, 10)

calculateRecencyScore(sources) ==
  IF Len(sources) = 0 THEN Zero
  ELSE RDivInt(RSum(Map(sources, recencyOf)), Len(sources))

isHighQuality(s) == RGeq(OrElse(s.credibilityScore, Zero), Q(7, 10))

\* 1. source quality: mean credibility, a missing (or zero) score read as 0.5
sourceQualityOf(sources) ==
  LET credOf(s) == OrElse(s.credibilityScore, Q(1, 2))
  IN  IF Len(sources) > 0
        THEN RDivInt(RSum(Map(sources, credOf)), Len(sources))
        ELSE Q(3, 10)

\* 3. independent agreement: fraction of high-quality sources
agreementOf(sources) ==
  LET highQ == Len(Filter(sources, isHighQuality))
  IN  IF Len(sources) > 0 THEN Q(highQ, Len(sources)) ELSE Q(3, 10)

\* a plausible slip: the weights do not switch when there are no sources
weightsFixed(sources) ==
  [source |-> Q(45, 100), model |-> Q(30, 100),
   recency |-> Q(10, 100), agreement |-> Q(10, 100)]

weightsOf(sources) ==
  [source |-> IF Len(sources) > 0 THEN Q(45, 100) ELSE Q(20, 100),
   model |-> IF Len(sources) > 0 THEN Q(30, 100) ELSE Q(50, 100),
   recency |-> IF Len(sources) > 0 THEN Q(10, 100) ELSE Q(5, 100),
   agreement |-> IF Len(sources) > 0 THEN Q(10, 100) ELSE Q(5, 100)]

rawOf(sources, modelConsensus, biasPenalty) ==
  LET w == weightsOf(sources)
  IN  RSub(RAdd(RAdd(RAdd(RMul(w.source, sourceQualityOf(sources)),
                          RMul(w.model, modelConsensus)),
                     RMul(w.recency, calculateRecencyScore(sources))),
                RMul(w.agreement, agreementOf(sources))),
           RMul(Q(5, 100), biasPenalty))

\* a plausible slip: the rounded score is returned without the clamp
calculateTrustScoreUnclamped(sources, modelConsensus, biasPenalty, modelAgreement) ==
  MathRound(RMul(rawOf(sources, modelConsensus, biasPenalty), Q(100, 1)))

\* the declaration takes three parameters; a fourth argument passed by a
\* caller (modelAgreement) is not read
calculateTrustScore(sources, modelConsensus, biasPenalty, modelAgreement) ==
  Max(0, Min(100, MathRound(RMul(rawOf(sources, modelConsensus, biasPenalty),
                                 Q(100, 1)))))

\* bias.politicalBias and bias.sensationalism are rationals
biasPenalty(bias) ==
  RAdd(RMul(RAbs(bias.politicalBias), Q(1, 2)), RMul(bias.sensationalism, Q(1, 2)))

trustLabel(score) ==
  IF score >= 75 THEN "Likely True"
  ELSE IF score >= 40 THEN "Unverified / Mixed"
  ELSE "Likely Misleading"

(* ------------------- analyzeImage: local computations ------------------ *)
\* Step 3: the quality gate
highQualitySources(sources) == Filter(sources, isHighQuality)
\* a plausible slip: two high-quality sources are taken to be enough
hasMinimumSourcesTwo(sources) == Len(highQualitySources(sources)) >= 2
hasMinimumSources(sources) == Len(highQualitySources(sources)) >= 3

\* sources.slice(0, 5)
slice5(sources) == SubSeq(sources, 1, Min(5, Len(sources)))

\* the bias block of a claim the gate turned away
UnableBias ==
  [politicalBias |-> Zero, sensationalism |-> Q(3, 10), overallBias |-> "center",
   explanation |-> "Unable to assess bias without sufficient sources."]

\* Step 5: the placeholder the orchestrator uses instead of a bias stage
PlaceholderBias ==
  [politicalBias |-> Zero, sensationalism |-> Q(3, 10), overallBias |-> "center",
   explanation |-> "Bias analysis available via 'Bias Analysis' button"]

\* a plausible slip: the score of a turned-away claim is computed, not forced to 0
UnableClaimScored(claimIdx, extracted, sources) ==
  [id |-> claimIdx,
   text |-> extracted,
   verdict |-> "unable_to_verify",
   trustScore |-> calculateTrustScore(sources, Zero, biasPenalty(UnableBias), Zero),
   explanation |-> [kind |-> "unable", found |-> Len(highQualitySources(sources))],
   sources |-> slice5(sources),
   biasSignals |-> UnableBias,
   modelVerdicts |-> <<>>]

UnableClaim(claimIdx, extracted, sources) ==
  [id |-> claimIdx,
   text |-> extracted,
   verdict |-> "unable_to_verify",
   trustScore |-> 0,
   explanation |-> [kind |-> "unable", found |-> Len(highQualitySources(sources))],
   sources |-> slice5(sources),
   biasSignals |-> UnableBias,
   modelVerdicts |-> <<>>]

UnableResult(extractedClaims, sources) ==
  [claims |-> [i \in 1..Len(extractedClaims) |->
                 UnableClaim(i, extractedClaims[i], sources)],
   aggregateTrustScore |-> 0,
   trustLabel |-> "Unable to Verify",
   summary |-> [kind |-> "unable", found |-> Len(highQualitySources(sources))]]

\* Step 6: consensus of one claim's verifications
countVerdict(verifications, verdict) ==
  Cardinality({i \in 1..Len(verifications) : verifications[i].verdict = verdict})

\* a plausible slip: one likely_true verdict is taken for a majority
finalVerdictAnyTrue(verifications) ==
  IF countVerdict(verifications, "likely_true") >= 1 THEN "likely_true"
  ELSE IF countVerdict(verifications, "likely_misleading") >= 2 THEN "likely_misleading"
  ELSE "mixed"

finalVerdictOf(verifications) ==
  IF countVerdict(verifications, "likely_true") >= 2 THEN "likely_true"
  ELSE IF countVerdict(verifications, "likely_misleading") >= 2 THEN "likely_misleading"
  ELSE "mixed"

confidenceOf(v) == Hundredths(v.confidence)
avgConfidenceOf(verifications) ==
  RDivInt(RSum(Map(verifications, confidenceOf)), Len(verifications))

modelAgreementOf(verifications) ==
  Q(countVerdict(verifications, finalVerdictOf(verifications)), Len(verifications))

toModelVerdicts(verifications) ==
  [i \in 1..Len(verifications) |->
     [modelName |-> verifications[i].modelName,
      agrees |-> (verifications[i].verdict = finalVerdictOf(verifications)),
      confidence |-> verifications[i].confidence,
      verdict |-> verifications[i].verdict,
      reasoning |-> verifications[i].reasoning]]

\* the explanation text, by the parts it is assembled from
mainExplanationOf(verifications) ==
  LET explanations == SelectSeq(Map(verifications, LAMBDA v : v.reasoning),
                                LAMBDA r : r # "")
  IN  IF Len(explanations) > 0
        THEN [kind |-> "reasoning", first |-> explanations[1],
              count |-> countVerdict(verifications, "likely_true"),
              of |-> Len(verifications),
              verdict |-> finalVerdictOf(verifications)]
        ELSE [kind |-> "generic", of |-> Len(verifications)]

SynthesizeClaim(claimIdx, extracted, verifications, sources, biasSignals) ==
  [id |-> claimIdx,
   text |-> extracted,
   verdict |-> finalVerdictOf(verifications),
   trustScore |-> calculateTrustScore(sources, avgConfidenceOf(verifications),
                                      biasPenalty(biasSignals),
                                      modelAgreementOf(verifications)),
   explanation |-> mainExplanationOf(verifications),
   sources |-> slice5(sources),
   biasSignals |-> biasSignals,
   modelVerdicts |-> toModelVerdicts(verifications)]

RECURSIVE SumScores(_)
SumScores(claims) ==
  IF claims = <<>> THEN 0 ELSE Head(claims).trustScore + SumScores(Tail(claims))

aggScoreTruncated(claims) ==
  IF Len(claims) > 0 THEN SumScores(claims) \div Len(claims) ELSE 0

aggScoreOf(claims) ==
  IF Len(claims) > 0 THEN MathRound(Q(SumScores(claims), Len(claims))) ELSE 0

generateSummary(claims, biasSignals, sourceCount) ==
  LET mainVerdict == IF Len(claims) > 0 THEN claims[1].verdict ELSE "mixed"
  IN  [kind |-> "analysis",
       claimCount |-> Len(claims),
       verdictDesc |-> IF mainVerdict = "likely_true" THEN "likely true"
                       ELSE IF mainVerdict = "likely_misleading" THEN "likely misleading"
                       ELSE "unverified",
       biasDesc |-> IF biasSignals.overallBias = "center" THEN "relatively neutral"
                    ELSE biasSignals.overallBias,
       sourceCount |-> sourceCount]

SynthesizeResult(extractedClaims, allVerifications, sources) ==
  LET claims == [i \in 1..Len(extractedClaims) |->
                   SynthesizeClaim(i, extractedClaims[i], allVerifications[i],
                                   sources, PlaceholderBias)]
  IN  [claims |-> claims,
       aggregateTrustScore |-> aggScoreOf(claims),
       trustLabel |-> trustLabel(aggScoreOf(claims)),
       summary |-> generateSummary(claims, PlaceholderBias, Len(sources))]

(* ------------------------------- state --------------------------------- *)
VARIABLES
  tsSources,        \* trust score engine: the sources argument being assembled
  tsCall,           \* trust score engine: the call made and the score returned
  scSources,        \* end-to-end scenario: the five sources, dated one by one
  scResult,         \* end-to-end scenario: gate outcome and the synthesized claim
  hpc,              \* POST /api/analyze handler: position
  env,              \* process.env: the configuration variables that are set
  imageUrl,         \* handler local: the image URL, once known
  timer,            \* the 55 s timer of the race: "off", "armed", "fired"
  response,         \* the HTTP response sent, if any
  pc,               \* analyzeImage: position
  ocrText,          \* analyzeImage local
  extractedClaims,  \* analyzeImage local, empty option while extraction is pending
  sources,          \* analyzeImage local, empty option while the search is pending
  allVerifications, \* per claim, per roster model: the verification, once settled
  calls,            \* outbound calls issued by the job so far, by kind
  settled,          \* how analyzeImage's promise settled (result or error), if it has
  gcPc,             \* getModelConsensus: position
  gcOutcomes,       \* getModelConsensus: what each perspective's backend calls did
  gcVerdicts,       \* getModelConsensus: the verdict each perspective's branch produced
  bPc,              \* POST /api/bias/analyze and detectBiasWithTransparency: position
  bAssistants,      \* per perspective: the assistant id, once resolved
  bEntries,         \* per assessment: what the forEach pushed for it, once settled
  bResult,          \* the BiasAnalysisResult returned, if any
  bResponse,        \* the HTTP response of the bias handler, if any
  oPc,              \* extractTextFromImage: position
  oAttempt,         \* extractTextFromImage: the loop variable attempt
  oRequests,        \* extractTextFromImage: requests made to Gemini and what came back
  oError,           \* extractTextFromImage: the error thrown, if any
  oText,            \* extractTextFromImage: the text returned, if any
  ecCall,           \* extractClaims: the call made (reply and returned list), if any
  ssCall,           \* searchSources: the call made (outcome and returned list), if any
  agScores,         \* aggregation: the per-claim trust scores being assembled
  agCall,           \* aggregation: the aggregate score and label computed, if any
  chCache,          \* lib/backboard.ts assistantCache: assistant name -> id, if cached
  chAssistants,     \* the backend's assistants by id: name and system prompt
  chThreads,        \* lib/backboard.ts chatThreads: jobId-mode -> thread id, if any
  chThreadAsst,     \* the backend's threads by id: the assistant each was created on
  chCalls,          \* per concurrent chatAboutJob call: position, arguments, locals
  chReturned,       \* the (name, id) pairs getOrCreateAssistant has returned so far
  chCount,          \* number of chat requests started so far
  slCall,           \* searchWithAI or searchCombined: the call made and the list returned
  baCall,           \* bias aggregation on its own: the assessments given and the signals
  bOutOfOrder,      \* bias analysis: an assessment settled before one of lower index
  screenshotImage,  \* AppState: the screenshot being analysed, if any
  clientImageUrl,   \* AppState.imageUrl
  analysisResult,   \* AppState: the analysis shown, if any
  isAnalyzing,      \* AppState
  analysisError,    \* AppState
  progressText,     \* AppState
  showAnalysis,     \* AppState
  selectedTab,      \* AppState
  history,          \* AppState: past results, newest first
  tasks             \* AppState: the analysis tasks started, in order of start

engineVars == <<tsSources, tsCall>>
scenarioVars == <<scSources, scResult>>
jobVars == <<hpc, env, imageUrl, timer, response, pc, ocrText, extractedClaims, sources,
             allVerifications, calls, settled>>
consensusVars == <<gcPc, gcOutcomes, gcVerdicts>>
biasVars == <<bPc, bAssistants, bEntries, bResult, bResponse>>
ocrVars == <<oPc, oAttempt, oRequests, oError, oText>>
serviceVars == <<biasVars, ocrVars, ecCall, ssCall, agScores, agCall>>
chatVars == <<chCache, chAssistants, chThreads, chThreadAsst, chCalls, chReturned, chCount>>
clientVars == <<screenshotImage, clientImageUrl, analysisResult, isAnalyzing, analysisError,
                progressText, showAnalysis, selectedTab, history, tasks>>
laterVars == <<baCall, bOutOfOrder, clientVars>>
moreVars == <<chatVars, slCall, laterVars>>
vars == <<tsSources, tsCall, scSources, scResult, hpc, env, imageUrl, timer, response, pc,
          ocrText, extractedClaims, sources, allVerifications, calls, settled,
          gcPc, gcOutcomes, gcVerdicts, bPc, bAssistants, bEntries, bResult, bResponse,
          oPc, oAttempt, oRequests, oError, oText, ecCall, ssCall, agScores, agCall,
          chCache, chAssistants, chThreads, chThreadAsst, chCalls, chReturned, chCount,
          slCall, baCall, bOutOfOrder, screenshotImage, clientImageUrl, analysisResult,
          isAnalyzing, analysisError, progressText, showAnalysis, selectedTab, history, tasks>>

None == <<>>
Some(x) == <<x>>
The(o) == o[1]

NoCalls == [ocr |-> 0, extract |-> 0, search |-> 0, verify |-> 0, bias |-> 0]

\* the chat endpoint: job ids, modes, the two assistants of chatAboutJob
\* the chatAboutJob calls that can be in progress at once
ChatCallers == {1, 2}
JobIds == {"jobA", "jobB"}
ChatModes == {"standard", "deep_research"}
AssistantNames == {"VerifyShot-Chat", "VerifyShot-DeepResearch"}
NoContext == <<>>
IdleCall ==
  [pc |-> "idle", jobId |-> "jobA", contextText |-> NoContext, mode |-> "standard",
   id |-> 0, threadId |-> 0, reply |-> None]

Init ==
  /\ tsSources = <<>>
  /\ tsCall = None
  /\ scSources = <<>>
  /\ scResult = None
  /\ hpc = "idle"
  /\ env = {}
  /\ imageUrl = None
  /\ timer = "off"
  /\ response = None
  /\ pc = "idle"
  /\ ocrText = <<>>
  /\ extractedClaims = None
  /\ sources = None
  /\ allVerifications = <<>>
  /\ calls = NoCalls
  /\ settled = None
  /\ gcPc = "idle"
  /\ gcOutcomes = <<None, None, None>>
  /\ gcVerdicts = <<None, None, None>>
  /\ bPc = "idle"
  /\ bAssistants = <<None, None, None>>
  /\ bEntries = [i \in 1..9 |-> None]
  /\ bResult = None
  /\ bResponse = None
  /\ oPc = "idle"
  /\ oAttempt = 0
  /\ oRequests = <<>>
  /\ oError = None
  /\ oText = None
  /\ ecCall = None
  /\ ssCall = None
  /\ agScores = <<>>
  /\ agCall = None
  /\ chCache = [n \in AssistantNames |-> None]
  /\ chAssistants = <<>>
  /\ chThreads = [k \in JobIds \X ChatModes |-> None]
  /\ chThreadAsst = <<>>
  /\ chCalls = [c \in ChatCallers |-> IdleCall]
  /\ chReturned = {}
  /\ chCount = 0
  /\ slCall = None
  /\ baCall = None
  /\ bOutOfOrder = FALSE
  /\ screenshotImage = None
  /\ clientImageUrl = None
  /\ analysisResult = None
  /\ isAnalyzing = FALSE
  /\ analysisError = None
  /\ progressText = ""
  /\ showAnalysis = FALSE
  /\ selectedTab = "home"
  /\ history = <<>>
  /\ tasks = <<>>

\* one behaviour is one invocation: an operation starts only while the others
\* have not been invoked
EngineIdle == tsSources = <<>> /\ tsCall = None
ScenarioIdle == scSources = <<>> /\ scResult = None
JobIdle == hpc = "idle"
ConsensusIdle == gcPc = "idle"
ChatIdle == chCount = 0
ClientIdle == tasks = <<>>
MoreIdle == ChatIdle /\ slCall = None /\ baCall = None /\ ClientIdle
ServicesIdle ==
  /\ bPc = "idle" /\ oPc = "idle" /\ ecCall = None /\ ssCall = None
  /\ agScores = <<>> /\ agCall = None
  /\ MoreIdle

(* ----------------- the trust score engine on its own ------------------- *)
ScoreCreds == {0, 1, 70, 100}
AgeDays == {0, 7, 30, 365}
ModelConsensusValues == {Zero, Q(9, 10), One}
BiasPenaltyValues == {Zero, One}
ModelAgreementValues == {Q(1, 3), Q(2, 3), One}

ScorePush(c, a) ==
  /\ ScenarioIdle /\ JobIdle /\ ConsensusIdle /\ ServicesIdle
  /\ tsCall = None
  /\ Len(tsSources) < MaxScoreSources
  /\ tsSources' = Append(tsSources, Source(c, a))
  /\ UNCHANGED <<tsCall, scenarioVars, jobVars, consensusVars, serviceVars, moreVars>>

ScoreCall(mc, bp, ma) ==
  /\ ScenarioIdle /\ JobIdle /\ ConsensusIdle /\ ServicesIdle
  /\ tsCall = None
  /\ tsCall' = Some([modelConsensus |-> mc, biasPenalty |-> bp, modelAgreement |-> ma,
                     score |-> calculateTrustScore(tsSources, mc, bp, ma)])
  /\ UNCHANGED <<tsSources, scenarioVars, jobVars, consensusVars, serviceVars, moreVars>>

ScoreNext ==
  \/ \E c \in ScoreCreds, a \in AgeDays : ScorePush(c, a)
  \/ \E mc \in ModelConsensusValues, bp \in BiasPenaltyValues,
        ma \in ModelAgreementValues : ScoreCall(mc, bp, ma)

(* ---------------- the documented end-to-end scenario ------------------- *)
ScenarioCreds == <<95, 92, 88, 30, 30>>
ScenarioVerifications ==
  << [modelName |-> "GPT-4o", verdict |-> "likely_misleading", confidence |-> 95,
      reasoning |-> "Extensive studies show no link"],
     [modelName |-> "Claude 3.5 Sonnet", verdict |-> "likely_misleading", confidence |-> 92,
      reasoning |-> "This claim contradicts peer-reviewed research"],
     [modelName |-> "Gemini 1.5 Pro", verdict |-> "likely_misleading", confidence |-> 90,
      reasoning |-> "Multiple large-scale studies refute this"] >>

ScenarioSource(a) ==
  /\ EngineIdle /\ JobIdle /\ ConsensusIdle /\ ServicesIdle
  /\ Len(scSources) < Len(ScenarioCreds)
  /\ scSources' = Append(scSources, Source(ScenarioCreds[Len(scSources) + 1], a))
  /\ UNCHANGED <<scResult, engineVars, jobVars, consensusVars, serviceVars, moreVars>>

\* Steps 3 to 6 of analyzeImage on the scenario's sources and verdicts
ScenarioRun ==
  /\ EngineIdle /\ JobIdle /\ ConsensusIdle /\ ServicesIdle
  /\ Len(scSources) = Len(ScenarioCreds)
  /\ scResult = None
  /\ scResult' = Some(
       IF ~hasMinimumSources(scSources)
         THEN [gatePassed |-> FALSE,
               modelAgreement |-> Zero,
               result |-> UnableResult(<<"Vaccines cause autism">>, scSources)]
         ELSE [gatePassed |-> TRUE,
               modelAgreement |-> modelAgreementOf(ScenarioVerifications),
               result |-> SynthesizeResult(<<"Vaccines cause autism">>,
                                           <<ScenarioVerifications>>, scSources)])
  /\ UNCHANGED <<scSources, engineVars, jobVars, consensusVars, serviceVars, moreVars>>

ScenarioNext ==
  \/ \E a \in AgeDays : ScenarioSource(a)
  \/ ScenarioRun

ScoreSpec == Init /\ [][ScoreNext]_vars
ScenarioSpec == Init /\ [][ScenarioNext]_vars

(* ---------------------- POST /api/analyze, analyzeImage ----------------- *)
\* a text is its sequence of characters
Blank == <<" ", " ">>
TextA == <<"V", "a", "c", "c", "i", "n", "e", "s", " ", "c", "a", "u", "s", "e", " ", "a", "u", "t", "i", "s", "m", ".", " ", "R", "T">>
OcrTexts == {Blank, TextA}

IsSpace(ch) == ch \in {" ", "\n"}
RECURSIVE TrimStart(_)
TrimStart(t) == IF t # <<>> /\ IsSpace(Head(t)) THEN TrimStart(Tail(t)) ELSE t
RECURSIVE TrimEnd(_)
TrimEnd(t) ==
  IF t # <<>> /\ IsSpace(t[Len(t)]) THEN TrimEnd(SubSeq(t, 1, Len(t) - 1)) ELSE t
Trim(t) == TrimEnd(TrimStart(t))

\* text.split(/[.!?\n]/)[0]
RECURSIVE FirstSegment(_)
FirstSegment(t) ==
  IF t = <<>> \/ Head(t) \in {".", "!", "?", "\n"} THEN <<>>
  ELSE <<Head(t)>> \o FirstSegment(Tail(t))

\* text.slice(0, 200)
Slice200(t) == SubSeq(t, 1, Min(200, Len(t)))

\* the claim list used when claim extraction rejects
fallbackClaims(text) ==
  LET firstSentence == Trim(FirstSegment(text))
  IN  IF firstSentence # <<>> /\ Len(firstSentence) > 10
        THEN <<firstSentence>>
        ELSE <<Slice200(text)>>

\* an error message is the set of the marker substrings it contains
Markers == {"429", "rate limit", "GEMINI_API_KEY", "Gemini", "BACKBOARD_API_KEY",
            "Backboard", "timed out", "OCR failed"}
includes(msg, marker) == marker \in msg

\* what extractTextFromImage can reject with (lib/geminiOcr.ts)
OcrErrors == { {"Gemini", "rate limit"},   \* rate limit exceeded after the retries
               {"Gemini"},                 \* Gemini Vision API error
               {} }                        \* download failure, no text, transport

\* the error analyzeImage throws for an OCR rejection
ocrFailure(err) ==
  IF includes(err, "429") \/ includes(err, "rate limit")
    THEN {"Gemini", "rate limit"}
  ELSE IF includes(err, "GEMINI_API_KEY")
    THEN {"OCR failed", "GEMINI_API_KEY"}
  ELSE {"OCR failed", "GEMINI_API_KEY"} \cup err

NoTextFound == {}
TimedOut == {"timed out"}

\* the 500 answer of the handler's catch block
errorResponse(msg) ==
  [status |-> 500,
   error |-> msg,
   hint |-> IF includes(msg, "GEMINI_API_KEY") \/ includes(msg, "Gemini") THEN "gemini key"
            ELSE IF includes(msg, "BACKBOARD_API_KEY") \/ includes(msg, "Backboard")
              THEN "backboard key"
            ELSE IF includes(msg, "timed out") THEN "timeout"
            ELSE IF includes(msg, "OCR failed") THEN "ocr"
            ELSE "logs"]

okResponse(result) == [status |-> 200, result |-> result]
plainResponse(status, error) == [status |-> status, error |-> error]

EnvVars == {"GEMINI_API_KEY", "BACKBOARD_API_KEY", "BLOB_READ_WRITE_TOKEN"}

\* the search layer's hits: hostname of the result link and age of the page
SearchHits ==
  << [host |-> <<"www", "foxnews", "com">>, age |-> 0],
     [host |-> <<"example", "org">>, age |-> 400],
     [host |-> <<"example", "com">>, age |-> 10] >>

\* items.map(...) of searchSources
toSource(hit) ==
  [domain |-> stripWww(hit.host),
   age |-> hit.age,
   credibilityScore |-> credibilityForDomain(hit.host)]

\* the orchestrator reads a source list through order-insensitive aggregates
\* only, so the result lists are enumerated up to reordering
SearchResults ==
  LET idx == UNION {[1..n -> 1..Len(SearchHits)] : n \in 0..MaxSources}
      ranked == {s \in idx : \A i \in 1..(Len(s) - 1) : s[i] <= s[i + 1]}
  IN  {[i \in 1..Len(s) |-> toSource(SearchHits[s[i]])] : s \in ranked}

ClaimTexts == {<<"c", "l", "a", "i", "m">>}
ExtractResults == UNION {[1..n -> ClaimTexts] : n \in 0..MaxClaims}

(* the multi-model verifier of lib/backboardHttp: one backend call per roster
   model, a failed or unparseable call replaced by a neutral verdict *)
ROSTER == <<"GPT-4o", "Claude 3.5 Sonnet", "Gemini 1.5 Pro">>
Failed == [ok |-> FALSE, verdict |-> "", confidence |-> 0, reasoning |-> ""]
Reply(v, c, r) == [ok |-> TRUE, verdict |-> v, confidence |-> c, reasoning |-> r]
VerifierOutcomes ==
  {Failed, Reply("likely_true", 95, "supported"), Reply("mixed", 50, "unclear"),
   Reply("likely_misleading", 92, "refuted")}

verifyBranch(modelName, outcome) ==
  IF outcome.ok
    THEN [threw |-> FALSE,
          value |-> [modelName |-> modelName, verdict |-> outcome.verdict,
                     confidence |-> outcome.confidence, reasoning |-> outcome.reasoning]]
    ELSE [threw |-> FALSE,
          value |-> [modelName |-> modelName, verdict |-> "mixed",
                     confidence |-> 0, reasoning |-> ""]]

\* analyzeImage's promise settles; the handler, if still waiting on the race,
\* answers from it
Return(result) ==
  /\ pc' = "returned"
  /\ settled' = Some([kind |-> "result", result |-> result])
  /\ IF response = None
       THEN response' = Some(okResponse(result)) /\ hpc' = "done"
       ELSE UNCHANGED <<response, hpc>>

Throw(msg) ==
  /\ pc' = "thrown"
  /\ settled' = Some([kind |-> "error", error |-> msg])
  /\ IF response = None
       THEN response' = Some(errorResponse(msg)) /\ hpc' = "done"
       ELSE UNCHANGED <<response, hpc>>

Respond(r) ==
  /\ response' = Some(r)
  /\ hpc' = "done"
  /\ UNCHANGED <<timer, pc, calls, settled>>

\* from the missing-variables check to the first await of analyzeImage
AfterImageUrl ==
  LET missingVars == EnvVars \ env'
  IN  IF missingVars # {}
        THEN Respond([status |-> 500, error |-> missingVars, hint |-> "set variables"])
      ELSE IF "GEMINI_API_KEY" \notin env'
        THEN /\ timer' = "armed"
             /\ calls' = calls
             /\ Throw(ocrFailure({"GEMINI_API_KEY"}))
      ELSE /\ hpc' = "racing"
           /\ timer' = "armed"
           /\ pc' = "ocr"
           /\ calls' = [calls EXCEPT !.ocr = @ + 1]
           /\ UNCHANGED <<response, settled>>

Methods == {"OPTIONS", "GET", "POST"}
ImageKinds == {"none", "base64", "other"}

Request(method, hasUrl, image, e) ==
  /\ EngineIdle /\ ScenarioIdle /\ ConsensusIdle /\ ServicesIdle
  /\ hpc = "idle"
  /\ env' = e
  /\ UNCHANGED <<ocrText, extractedClaims, sources, allVerifications>>
  /\ IF method = "OPTIONS"
       THEN Respond([status |-> 200]) /\ UNCHANGED imageUrl
     ELSE IF method # "POST"
       THEN Respond(plainResponse(405, "Method not allowed")) /\ UNCHANGED imageUrl
     ELSE IF ~hasUrl /\ image # "none"
       THEN /\ UNCHANGED imageUrl
            /\ IF "BLOB_READ_WRITE_TOKEN" \notin e
                 THEN Respond([status |-> 500, error |-> {"BLOB_READ_WRITE_TOKEN"},
                               hint |-> "set variables"])
               ELSE IF image = "other"
                 THEN Respond([status |-> 400, error |-> "Invalid base64 image data",
                               hint |-> "corrupted"])
               ELSE /\ hpc' = "upload"
                    /\ UNCHANGED <<timer, response, pc, calls, settled>>
     ELSE IF ~hasUrl
       THEN Respond(plainResponse(400, "imageUrl or image (base64) required"))
            /\ UNCHANGED imageUrl
     ELSE imageUrl' = Some("url") /\ AfterImageUrl
  /\ UNCHANGED <<engineVars, scenarioVars, consensusVars, serviceVars, moreVars>>

BlobPut(ok) ==
  /\ hpc = "upload"
  /\ UNCHANGED <<env, ocrText, extractedClaims, sources, allVerifications>>
  /\ IF ok
       THEN imageUrl' = Some("url") /\ AfterImageUrl
       ELSE /\ Respond([status |-> 500, error |-> "Failed to upload image",
                        hint |-> "too large"])
            /\ UNCHANGED imageUrl
  /\ UNCHANGED <<engineVars, scenarioVars, consensusVars, serviceVars, moreVars>>

\* the 55 s timer rejects the race; the handler's catch answers if it still waits
\* a plausible slip: the timer's rejection answers without regard to an answer
\* already sent
TimerFiresAnswers ==
  /\ timer = "armed"
  /\ timer' = "fired"
  /\ response' = Some(errorResponse(TimedOut)) /\ hpc' = "done"
  /\ UNCHANGED <<env, imageUrl, pc, ocrText, extractedClaims, sources, allVerifications,
                 calls, settled>>
  /\ UNCHANGED <<engineVars, scenarioVars, consensusVars, serviceVars, moreVars>>

TimerFires ==
  /\ timer = "armed"
  /\ timer' = "fired"
  /\ IF response = None
       THEN response' = Some(errorResponse(TimedOut)) /\ hpc' = "done"
       ELSE UNCHANGED <<response, hpc>>
  /\ UNCHANGED <<env, imageUrl, pc, ocrText, extractedClaims, sources, allVerifications,
                 calls, settled>>
  /\ UNCHANGED <<engineVars, scenarioVars, consensusVars, serviceVars, moreVars>>

\* a plausible slip: Step 1 without the check for empty text
OcrSettlesUnchecked(ok, err, text) ==
  /\ pc = "ocr"
  /\ UNCHANGED <<env, imageUrl, timer, extractedClaims, sources, allVerifications>>
  /\ IF ~ok
       THEN Throw(ocrFailure(err)) /\ UNCHANGED <<ocrText, calls>>
     ELSE /\ ocrText' = text
          /\ pc' = "step2"
          /\ calls' = [calls EXCEPT !.extract = @ + 1, !.search = @ + 1]
          /\ UNCHANGED <<hpc, response, settled>>
  /\ UNCHANGED <<engineVars, scenarioVars, consensusVars, serviceVars, moreVars>>

\* a plausible slip: Step 1 calls OCR a second time after a failure
OcrSettlesRetries(ok, err, text) ==
  /\ pc = "ocr"
  /\ UNCHANGED <<env, imageUrl, timer, extractedClaims, sources, allVerifications>>
  /\ IF ~ok /\ calls.ocr < 2
       THEN /\ calls' = [calls EXCEPT !.ocr = @ + 1]
            /\ UNCHANGED <<hpc, response, pc, settled, ocrText>>
     ELSE IF ~ok
       THEN Throw(ocrFailure(err)) /\ UNCHANGED <<ocrText, calls>>
     ELSE IF Trim(text) = <<>>
       THEN Throw(NoTextFound) /\ ocrText' = text /\ UNCHANGED calls
     ELSE /\ ocrText' = text
          /\ pc' = "step2"
          /\ calls' = [calls EXCEPT !.extract = @ + 1, !.search = @ + 1]
          /\ UNCHANGED <<hpc, response, settled>>
  /\ UNCHANGED <<engineVars, scenarioVars, consensusVars, serviceVars, moreVars>>

\* Step 1
OcrSettles(ok, err, text) ==
  /\ pc = "ocr"
  /\ UNCHANGED <<env, imageUrl, timer, extractedClaims, sources, allVerifications>>
  /\ IF ~ok
       THEN Throw(ocrFailure(err)) /\ UNCHANGED <<ocrText, calls>>
     ELSE IF Trim(text) = <<>>
       THEN Throw(NoTextFound) /\ ocrText' = text /\ UNCHANGED calls
     ELSE /\ ocrText' = text
          /\ pc' = "step2"
          /\ calls' = [calls EXCEPT !.extract = @ + 1, !.search = @ + 1]
          /\ UNCHANGED <<hpc, response, settled>>
  /\ UNCHANGED <<engineVars, scenarioVars, consensusVars, serviceVars, moreVars>>

\* Step 2, the two parallel branches with their catch handlers
ExtractSettles(ok, list) ==
  /\ pc = "step2"
  /\ extractedClaims = None
  /\ extractedClaims' = Some(IF ok THEN list ELSE fallbackClaims(ocrText))
  /\ UNCHANGED <<hpc, env, imageUrl, timer, response, pc, ocrText, sources,
                 allVerifications, calls, settled>>
  /\ UNCHANGED <<engineVars, scenarioVars, consensusVars, serviceVars, moreVars>>

SearchSettles(ok, list) ==
  /\ pc = "step2"
  /\ sources = None
  /\ sources' = Some(IF ok THEN list ELSE <<>>)
  /\ UNCHANGED <<hpc, env, imageUrl, timer, response, pc, ocrText, extractedClaims,
                 allVerifications, calls, settled>>
  /\ UNCHANGED <<engineVars, scenarioVars, consensusVars, serviceVars, moreVars>>

\* a plausible slip: the gate's branch logs the failure but does not return
QualityGateFallsThrough ==
  /\ pc = "step2"
  /\ extractedClaims # None
  /\ sources # None
  /\ pc' = "verify"
  /\ allVerifications' =
       [i \in 1..Len(The(extractedClaims)) |-> [m \in 1..Len(ROSTER) |-> None]]
  /\ calls' = [calls EXCEPT !.verify = @ + Len(ROSTER) * Len(The(extractedClaims))]
  /\ UNCHANGED <<hpc, env, imageUrl, timer, response, ocrText, extractedClaims, sources,
                 settled>>
  /\ UNCHANGED <<engineVars, scenarioVars, consensusVars, serviceVars, moreVars>>

\* Step 3, and on a pass the start of Step 4: every model call of every claim
QualityGate ==
  /\ pc = "step2"
  /\ extractedClaims # None
  /\ sources # None
  /\ UNCHANGED <<env, imageUrl, timer, ocrText, extractedClaims, sources>>
  /\ IF ~hasMinimumSources(The(sources))
       THEN /\ Return(UnableResult(The(extractedClaims), The(sources)))
            /\ UNCHANGED <<allVerifications, calls>>
       ELSE /\ pc' = "verify"
            /\ allVerifications' =
                 [i \in 1..Len(The(extractedClaims)) |-> [m \in 1..Len(ROSTER) |-> None]]
            /\ calls' = [calls EXCEPT
                           !.verify = @ + Len(ROSTER) * Len(The(extractedClaims))]
            /\ UNCHANGED <<hpc, response, settled>>
  /\ UNCHANGED <<engineVars, scenarioVars, consensusVars, serviceVars, moreVars>>

\* Step 4: one model call of one claim settles
VerifySettles(c, m, outcome) ==
  /\ pc = "verify"
  /\ c \in 1..Len(allVerifications)
  /\ allVerifications[c][m] = None
  /\ UNCHANGED <<env, imageUrl, timer, ocrText, extractedClaims, sources, calls>>
  /\ LET r == verifyBranch(ROSTER[m], outcome)
     IN  IF r.threw
           THEN Throw({"Backboard"}) /\ UNCHANGED allVerifications
           ELSE /\ allVerifications' = [allVerifications EXCEPT ![c][m] = Some(r.value)]
                /\ UNCHANGED <<hpc, response, pc, settled>>
  /\ UNCHANGED <<engineVars, scenarioVars, consensusVars, serviceVars, moreVars>>

\* Steps 5 and 6
Synthesize ==
  /\ pc = "verify"
  /\ \A c \in 1..Len(allVerifications) : \A m \in 1..Len(ROSTER) :
       allVerifications[c][m] # None
  /\ Return(SynthesizeResult(The(extractedClaims),
                             [c \in 1..Len(allVerifications) |->
                                [m \in 1..Len(ROSTER) |-> The(allVerifications[c][m])]],
                             The(sources)))
  /\ UNCHANGED <<env, imageUrl, timer, ocrText, extractedClaims, sources,
                 allVerifications, calls>>
  /\ UNCHANGED <<engineVars, scenarioVars, consensusVars, serviceVars, moreVars>>

JobNext ==
  \/ \E method \in Methods, hasUrl \in BOOLEAN, image \in ImageKinds,
        e \in SUBSET EnvVars : Request(method, hasUrl, image, e)
  \/ \E ok \in BOOLEAN : BlobPut(ok)
  \/ TimerFires
  \/ \E ok \in BOOLEAN, err \in OcrErrors, text \in OcrTexts : OcrSettles(ok, err, text)
  \/ \E ok \in BOOLEAN, list \in ExtractResults : ExtractSettles(ok, list)
  \/ \E ok \in BOOLEAN, list \in SearchResults : SearchSettles(ok, list)
  \/ QualityGate
  \/ \E c \in 1..MaxClaims, m \in 1..Len(ROSTER), outcome \in VerifierOutcomes :
       VerifySettles(c, m, outcome)
  \/ Synthesize

JobSpec == Init /\ [][JobNext]_vars

(* --------------------- getModelConsensus (lib/backboard.ts) ------------ *)
perspectives == <<"GPT-4", "Claude 3", "Gemini">>

\* what the backend calls of one perspective do: one of the awaited calls
\* rejects, or the reply is not JSON, or it parses to r
GcFailures == {"assistant", "thread", "message", "parse"}
GcThrow(at) == [threw |-> TRUE, at |-> at, agrees |-> FALSE, confidence |-> None]
GcJson(agrees, confidence) ==
  [threw |-> FALSE, at |-> "", agrees |-> agrees, confidence |-> confidence]
\* r.confidence in hundredths, or absent
GcConfidences == {None, Some(-20), Some(50), Some(170)}
GcOutcomes ==
  {GcThrow(at) : at \in GcFailures} \cup
  {GcJson(a, c) : a \in BOOLEAN, c \in GcConfidences}

\* Math.max(0, Math.min(1, r.confidence ?? 0.5)), in hundredths
clampConfidence(confidence) ==
  Max(0, Min(100, IF confidence = None THEN 50 ELSE The(confidence)))

\* a plausible slip: the branch has no catch, a failed call rejects it
consensusBranchNoCatch(name, outcome) ==
  [threw |-> outcome.threw,
   value |-> [modelName |-> name, agrees |-> outcome.agrees,
              confidence |-> clampConfidence(outcome.confidence)]]

\* the body of perspectives.map(async (p) => { try ... catch ... })
consensusBranch(name, outcome) ==
  IF outcome.threw
    THEN [threw |-> FALSE,
          value |-> [modelName |-> name, agrees |-> FALSE, confidence |-> 0]]
    ELSE [threw |-> FALSE,
          value |-> [modelName |-> name, agrees |-> outcome.agrees,
                     confidence |-> clampConfidence(outcome.confidence)]]

GcStart ==
  /\ EngineIdle /\ ScenarioIdle /\ JobIdle /\ ServicesIdle
  /\ gcPc = "idle"
  /\ gcPc' = "awaiting"
  /\ UNCHANGED <<gcOutcomes, gcVerdicts, engineVars, scenarioVars, jobVars, serviceVars, moreVars>>

\* one perspective's branch settles; a rejecting branch rejects Promise.all
GcBranchSettles(i, outcome) ==
  /\ gcPc = "awaiting"
  /\ gcOutcomes[i] = None
  /\ gcOutcomes' = [gcOutcomes EXCEPT ![i] = Some(outcome)]
  /\ LET r == consensusBranch(perspectives[i], outcome)
     IN  IF r.threw
           THEN gcPc' = "thrown" /\ UNCHANGED gcVerdicts
           ELSE /\ gcVerdicts' = [gcVerdicts EXCEPT ![i] = Some(r.value)]
                /\ UNCHANGED gcPc
  /\ UNCHANGED <<engineVars, scenarioVars, jobVars, serviceVars, moreVars>>

GcReturn ==
  /\ gcPc = "awaiting"
  /\ \A i \in 1..Len(perspectives) : gcVerdicts[i] # None
  /\ gcPc' = "returned"
  /\ UNCHANGED <<gcOutcomes, gcVerdicts, engineVars, scenarioVars, jobVars, serviceVars, moreVars>>

ConsensusNext ==
  \/ GcStart
  \/ \E i \in 1..Len(perspectives), outcome \in GcOutcomes : GcBranchSettles(i, outcome)
  \/ GcReturn

ConsensusSpec == Init /\ [][ConsensusNext]_vars

(* ------------- POST /api/bias/analyze, detectBiasWithTransparency ------- *)
\* bias values are counted in hundredths; the fields derived from the standard
\* deviation (confidence, agreement, consensus) are left out
BiasModels == <<"GPT-4o", "Claude 3.5 Sonnet", "Gemini 1.5 Pro">>
perspectiveOf(index) ==
  IF index < 3 THEN "us-left" ELSE IF index < 6 THEN "us-right" ELSE "international"
modelOf(index) == BiasModels[(index % 3) + 1]
BiasPerspectives == <<"us-left", "us-right", "international">>

\* what resolving one perspective's assistant can meet: a cache hit, or the
\* list call followed, unless the assistant is listed, by the create call
AssistantOutcomes ==
  {[cached |-> TRUE, list |-> "none", create |-> "none"]} \cup
  {[cached |-> FALSE, list |-> l, create |-> c] :
     l \in {"throws", "not ok", "found", "absent"},
     c \in {"none", "throws", "not ok", "no id", "created"}}

AssistantFailed == "Bias assistant creation failed"

getOrCreatePerspectiveAssistant(perspective, outcome) ==
  IF outcome.cached THEN [threw |-> FALSE, value |-> perspective]
  ELSE IF outcome.list = "throws" THEN [threw |-> TRUE, value |-> AssistantFailed]
  ELSE IF outcome.list = "found" THEN [threw |-> FALSE, value |-> perspective]
  ELSE IF outcome.create = "created" THEN [threw |-> FALSE, value |-> perspective]
  ELSE [threw |-> TRUE, value |-> AssistantFailed]

\* the parsed reply of assessment call number index (0-based, as forEach counts)
BiasReplies ==
  << [politicalBias |-> -80, sensationalism |-> 90],
     [politicalBias |-> -60, sensationalism |-> 70],
     [politicalBias |-> -150, sensationalism |-> 50],
     [politicalBias |-> 60, sensationalism |-> 0],
     [politicalBias |-> 40, sensationalism |-> 40],
     [politicalBias |-> 20, sensationalism |-> 130],
     [politicalBias |-> 0, sensationalism |-> 10],
     [politicalBias |-> 10, sensationalism |-> 20],
     [politicalBias |-> -10, sensationalism |-> 35] >>

\* how one assessment call can go
AssessmentFailures == {"thread", "message", "no json", "throws"}
AssessmentOutcomes == {"ok", "callback throws"} \cup AssessmentFailures

NeutralAssessmentZero == [politicalBias |-> 0, sensationalism |-> 0, reasoning |-> "Error"]
NeutralAssessment == [politicalBias |-> 0, sensationalism |-> 30, reasoning |-> "Error"]

assessBiasFromModel(index, outcome) ==
  IF outcome \in AssessmentFailures THEN NeutralAssessment
  ELSE LET parsed == BiasReplies[index + 1]
           sn == IF parsed.sensationalism = 0 THEN 30 ELSE parsed.sensationalism
       IN  [politicalBias |-> Max(-100, Min(100, parsed.politicalBias)),
            sensationalism |-> Max(0, Min(100, sn)),
            reasoning |-> "assessed"]

\* the promise of one assessment: rejected only if the progress callback throws
assessBiasWithUpdate(index, outcome) ==
  IF outcome = "callback throws" THEN [status |-> "rejected"]
  ELSE [status |-> "fulfilled", assessment |-> assessBiasFromModel(index, outcome)]

completeUpdate(index, assessment) ==
  [perspective |-> perspectiveOf(index), modelName |-> modelOf(index),
   status |-> "complete", reasoning |-> assessment.reasoning,
   bias |-> assessment.politicalBias, sensationalism |-> assessment.sensationalism]

\* what assessmentResults.forEach pushes for one settled promise
settledEntry(index, result) ==
  IF result.status = "fulfilled"
    THEN [assessment |-> result.assessment,
          update |-> completeUpdate(index, result.assessment)]
    ELSE [assessment |-> NeutralAssessment,
          update |-> completeUpdate(index, NeutralAssessment)]

RECURSIVE SumInts(_)
SumInts(s) == IF s = <<>> THEN 0 ELSE Head(s) + SumInts(Tail(s))

\* Math.round(mean * 100) / 100, in hundredths
roundedMean(values) == MathRound(Q(SumInts(values), Len(values)))

overallBiasOf(biases) ==
  LET avgBias == Q(SumInts(biases), Len(biases))
  IN  IF RLess(avgBias, Q(-50, 1)) THEN "left"
      ELSE IF RLess(avgBias, Q(-15, 1)) THEN "slight_left"
      ELSE IF RLess(Q(50, 1), avgBias) THEN "right"
      ELSE IF RLess(Q(15, 1), avgBias) THEN "slight_right"
      ELSE "center"

\* calculateStdDev: the value is the square root of the population variance;
\* it is kept as that variance (in hundredths squared), the root not taken
calculateStdDev(values) ==
  IF Len(values) = 0 THEN [sqrtOf |-> Zero]
  ELSE LET mean == Q(SumInts(values), Len(values))
           squares == [i \in 1..Len(values) |->
                         RMul(RSub(Q(values[i], 1), mean), RSub(Q(values[i], 1), mean))]
       IN  [sqrtOf |-> RDivInt(RSum(squares), Len(values))]

\* stdDev < t, for a threshold t >= 0 given in hundredths
stdDevLess(stdDev, t) == RLess(stdDev.sqrtOf, Q(t * t, 1))

\* Math.max(0, Math.min(1, 1 - stdDev / divisor)): a number 1 - sqrt(x), kept
\* as x; it is at most 1 as it stands and at least 0 once x is capped at 1
confidenceOfStdDev(stdDev, divisor) ==
  [oneMinusSqrtOf |->
     RMin(One, RMul(stdDev.sqrtOf, Q(1, 10000 * divisor * divisor)))]

\* Math.round((1 - stdDev / 2) * 100) / 100 in hundredths: the largest k with
\* k - 1/2 <= 100 - sqrt(variance) / 2
consensusOf(values) ==
  LET v == calculateStdDev(values).sqrtOf
      fits == {k \in 0..100 : v.n <= (201 - 2 * k) * (201 - 2 * k) * v.d}
  IN  CHOOSE k \in fits : \A j \in fits : j <= k

agreementOfStdDev(stdDev, high, medium) ==
  IF stdDevLess(stdDev, high) THEN "high"
  ELSE IF stdDevLess(stdDev, medium) THEN "medium"
  ELSE "low"

\* the key words a reasoning text of the sample holds
wordsIn(reasoning) ==
  IF reasoning = "emotional framing" THEN {"emotional", "emotion", "framing"}
  ELSE IF reasoning = "loaded terms, omits context" THEN {"loaded", "omit"}
  ELSE {}

KeySignalTable ==
  << [words |-> {"emotional", "emotion"}, signal |-> "Emotional language"],
     [words |-> {"selective", "cherry"}, signal |-> "Selective fact presentation"],
     [words |-> {"loaded", "charged"}, signal |-> "Loaded terminology"],
     [words |-> {"exaggerat", "hyperbol"}, signal |-> "Exaggeration"],
     [words |-> {"framing", "frame"}, signal |-> "Framing bias"],
     [words |-> {"omission", "omit"}, signal |-> "Factual omissions"] >>

\* extractKeySignals on the reasonings joined by blanks
extractKeySignals(reasonings) ==
  LET lower == UNION {wordsIn(reasonings[i]) : i \in 1..Len(reasonings)}
      signals == SelectSeq(KeySignalTable, LAMBDA e : e.words \cap lower # {})
  IN  IF Len(signals) > 0 THEN [i \in 1..Len(signals) |-> signals[i].signal]
      ELSE <<"Standard political messaging">>

generateMainExplanation(biases, sens, agreement, keySignals) ==
  LET bias == Q(SumInts(biases), Len(biases))
      sensationalism == Q(SumInts(sens), Len(sens))
  IN  [template |-> "9 independent assessments",
       biasDesc |-> IF RLess(bias, Q(-30, 1)) THEN "left-leaning"
                    ELSE IF RLess(Q(30, 1), bias) THEN "right-leaning"
                    ELSE "relatively neutral",
       sensDesc |-> IF RLess(Q(70, 1), sensationalism) THEN "highly sensational"
                    ELSE IF RLess(Q(40, 1), sensationalism) THEN "moderately sensational"
                    ELSE "low sensationalism",
       agreeDesc |-> IF agreement = "high" THEN "strong agreement"
                     ELSE IF agreement = "medium" THEN "moderate agreement"
                     ELSE "low agreement",
       keySignals |-> SubSeq(keySignals, 1, Min(3, Len(keySignals)))]

perspectiveSummary(assessments) ==
  [bias |-> roundedMean([i \in 1..Len(assessments) |-> assessments[i].politicalBias]),
   sensationalism |->
     roundedMean([i \in 1..Len(assessments) |-> assessments[i].sensationalism]),
   consensus |-> consensusOf([i \in 1..Len(assessments) |-> assessments[i].politicalBias])]

\* a plausible slip: the agreement label left out of the returned signals
aggregateBiasUnlabelled(assessments) ==
  LET allBiases == [i \in 1..Len(assessments) |-> assessments[i].politicalBias]
      allSens == [i \in 1..Len(assessments) |-> assessments[i].sensationalism]
      stdDev == calculateStdDev(allBiases)
      keySignals == extractKeySignals([i \in 1..Len(assessments) |-> assessments[i].reasoning])
  IN  [politicalBias |-> roundedMean(allBiases),
       sensationalism |-> roundedMean(allSens),
       overallBias |-> overallBiasOf(allBiases),
       explanation |-> generateMainExplanation(allBiases, allSens,
                                               agreementOfStdDev(stdDev, 20, 40), keySignals),
       confidence |-> confidenceOfStdDev(stdDev, 2),
       perspectives |-> [usLeft |-> perspectiveSummary(SubSeq(assessments, 1, 3)),
                         usRight |-> perspectiveSummary(SubSeq(assessments, 4, 6)),
                         international |-> perspectiveSummary(SubSeq(assessments, 7, 9))],
       keySignals |-> keySignals]

\* Steps 3 and 4 of detectBiasMultiPerspective, the same in
\* detectBiasWithTransparency: the BiasSignals of nine assessments
aggregateBias(assessments) ==
  LET allBiases == [i \in 1..Len(assessments) |-> assessments[i].politicalBias]
      allSens == [i \in 1..Len(assessments) |-> assessments[i].sensationalism]
      stdDev == calculateStdDev(allBiases)
      agreement == agreementOfStdDev(stdDev, 20, 40)
      keySignals == extractKeySignals([i \in 1..Len(assessments) |-> assessments[i].reasoning])
  IN  [politicalBias |-> roundedMean(allBiases),
       sensationalism |-> roundedMean(allSens),
       overallBias |-> overallBiasOf(allBiases),
       explanation |-> generateMainExplanation(allBiases, allSens, agreement, keySignals),
       confidence |-> confidenceOfStdDev(stdDev, 2),
       agreement |-> agreement,
       perspectives |-> [usLeft |-> perspectiveSummary(SubSeq(assessments, 1, 3)),
                         usRight |-> perspectiveSummary(SubSeq(assessments, 4, 6)),
                         international |-> perspectiveSummary(SubSeq(assessments, 7, 9))],
       keySignals |-> keySignals]

\* Step 3 of detectBias, the aggregator of the three-call module: one result
\* per perspective
detectBiasAggregate(results) ==
  LET allBiases == [i \in 1..Len(results) |-> results[i].politicalBias]
      allSens == [i \in 1..Len(results) |-> results[i].sensationalism]
      stdDev == calculateStdDev(allBiases)
      agreement == agreementOfStdDev(stdDev, 15, 35)
      keySignals == extractKeySignals([i \in 1..Len(results) |-> results[i].reasoning])
      single(r) == [bias |-> r.politicalBias, sensationalism |-> r.sensationalism,
                    consensus |-> 100]
  IN  [politicalBias |-> roundedMean(allBiases),
       sensationalism |-> roundedMean(allSens),
       overallBias |-> overallBiasOf(allBiases),
       explanation |-> [generateMainExplanation(allBiases, allSens, agreement, keySignals)
                          EXCEPT !.template = "3-perspective analysis"],
       confidence |-> confidenceOfStdDev(stdDev, 1),
       agreement |-> agreement,
       perspectives |-> [usLeft |-> single(results[1]), usRight |-> single(results[2]),
                         international |-> single(results[3])],
       keySignals |-> keySignals]

\* the return value of detectBiasWithTransparency
biasAnalysisResult(entries) ==
  LET biasSignals == aggregateBias([i \in 1..Len(entries) |-> entries[i].assessment])
  IN  [biasSignals |-> biasSignals,
       modelAssessments |-> [i \in 1..Len(entries) |-> entries[i].update],
       perspectives |-> biasSignals.perspectives]

biasErrorResponse(msg) ==
  [status |-> 500, error |-> msg,
   hint |-> IF msg = "BACKBOARD_API_KEY" THEN "backboard key" ELSE "logs"]

\* the handler up to the call of detectBiasWithTransparency
BiasRequest(method, valid, hasKey) ==
  /\ EngineIdle /\ ScenarioIdle /\ JobIdle /\ ConsensusIdle /\ ServicesIdle
  /\ IF method = "OPTIONS"
       THEN bPc' = "done" /\ bResponse' = Some([status |-> 200])
     ELSE IF method # "POST"
       THEN bPc' = "done" /\ bResponse' = Some(plainResponse(405, "Method not allowed"))
     ELSE IF ~valid
       THEN bPc' = "done" /\ bResponse' = Some(plainResponse(400, "fields required"))
     ELSE IF ~hasKey
       THEN bPc' = "done" /\ bResponse' = Some(plainResponse(500, "BACKBOARD_API_KEY"))
     ELSE bPc' = "assistants" /\ UNCHANGED bResponse
  /\ UNCHANGED <<bAssistants, bEntries, bResult, ocrVars, ecCall, ssCall, agScores, agCall>>
  /\ UNCHANGED <<engineVars, scenarioVars, jobVars, consensusVars, moreVars>>

\* Step 1: one of the three assistant promises settles; the first rejection
\* rejects Promise.all, detectBiasWithTransparency and the handler's await
BiasAssistantSettles(p, outcome) ==
  /\ bPc = "assistants"
  /\ bAssistants[p] = None
  /\ LET r == getOrCreatePerspectiveAssistant(BiasPerspectives[p], outcome)
         ids == [bAssistants EXCEPT ![p] = Some(r.value)]
     IN  IF r.threw
           THEN /\ bPc' = "thrown"
                /\ bResponse' = Some(biasErrorResponse(r.value))
                /\ UNCHANGED bAssistants
           ELSE /\ bAssistants' = ids
                /\ bPc' = IF \A q \in 1..3 : ids[q] # None THEN "assessing" ELSE bPc
                /\ UNCHANGED bResponse
  /\ UNCHANGED <<bEntries, bResult, ocrVars, ecCall, ssCall, agScores, agCall>>
  /\ UNCHANGED <<engineVars, scenarioVars, jobVars, consensusVars, moreVars>>

\* a plausible slip: each settled assessment appended in completion order
BiasAssessmentSettlesArrival(index, outcome) ==
  /\ bPc = "assessing"
  /\ bEntries[index + 1] = None
  /\ LET slot == CHOOSE i \in 1..9 :
                   bEntries[i] = None /\ \A j \in 1..(i - 1) : bEntries[j] # None
     IN  bEntries' = [bEntries EXCEPT
                        ![slot] = Some(settledEntry(index, assessBiasWithUpdate(index, outcome)))]
  /\ bOutOfOrder' = (bOutOfOrder \/ \E i \in 1..index : bEntries[i] = None)
  /\ UNCHANGED <<bPc, bAssistants, bResult, bResponse, ocrVars, ecCall, ssCall,
                 agScores, agCall>>
  /\ UNCHANGED <<engineVars, scenarioVars, jobVars, consensusVars, chatVars, slCall, baCall,
                 clientVars>>

\* Step 2: one of the nine assessment promises settles
BiasAssessmentSettles(index, outcome) ==
  /\ bPc = "assessing"
  /\ bEntries[index + 1] = None
  /\ bEntries' = [bEntries EXCEPT
                    ![index + 1] = Some(settledEntry(index, assessBiasWithUpdate(index, outcome)))]
  /\ bOutOfOrder' = (bOutOfOrder \/ \E i \in 1..index : bEntries[i] = None)
  /\ UNCHANGED <<bPc, bAssistants, bResult, bResponse, ocrVars, ecCall, ssCall,
                 agScores, agCall>>
  /\ UNCHANGED <<engineVars, scenarioVars, jobVars, consensusVars, chatVars, slCall, baCall,
                 clientVars>>

\* Promise.allSettled resolves; aggregation, return, the handler's 200
BiasReturn ==
  /\ bPc = "assessing"
  /\ \A i \in 1..9 : bEntries[i] # None
  /\ bPc' = "returned"
  /\ bResult' = Some(biasAnalysisResult([i \in 1..9 |-> The(bEntries[i])]))
  /\ bResponse' = Some(okResponse(The(bResult')))
  /\ UNCHANGED <<bAssistants, bEntries, ocrVars, ecCall, ssCall, agScores, agCall>>
  /\ UNCHANGED <<engineVars, scenarioVars, jobVars, consensusVars, moreVars>>

BiasNext ==
  \/ \E method \in Methods, valid \in BOOLEAN, hasKey \in BOOLEAN :
       BiasRequest(method, valid, hasKey)
  \/ \E p \in 1..3, outcome \in AssistantOutcomes : BiasAssistantSettles(p, outcome)
  \/ \E index \in 0..8, outcome \in AssessmentOutcomes :
       BiasAssessmentSettles(index, outcome)
  \/ BiasReturn

BiasSpec == Init /\ [][BiasNext]_vars

(* --------------- analyzeImage: the aggregate, on its own --------------- *)
AggScores == {0, 39, 40, 74, 75, 100}

AggPush(score) ==
  /\ EngineIdle /\ ScenarioIdle /\ JobIdle /\ ConsensusIdle
  /\ bPc = "idle" /\ oPc = "idle" /\ ecCall = None /\ ssCall = None
  /\ agCall = None
  /\ MoreIdle
  /\ Len(agScores) < MaxAggClaims
  /\ agScores' = Append(agScores, score)
  /\ UNCHANGED <<agCall, biasVars, ocrVars, ecCall, ssCall>>
  /\ UNCHANGED <<engineVars, scenarioVars, jobVars, consensusVars, moreVars>>

\* lines 195 to 211 of analyzeImage on claims with these trust scores
AggCall ==
  /\ EngineIdle /\ ScenarioIdle /\ JobIdle /\ ConsensusIdle
  /\ bPc = "idle" /\ oPc = "idle" /\ ecCall = None /\ ssCall = None
  /\ agCall = None
  /\ LET claims == [i \in 1..Len(agScores) |-> [trustScore |-> agScores[i]]]
     IN  agCall' = Some([aggregateTrustScore |-> aggScoreOf(claims),
                         trustLabel |-> trustLabel(aggScoreOf(claims))])
  /\ UNCHANGED <<agScores, biasVars, ocrVars, ecCall, ssCall>>
  /\ UNCHANGED <<engineVars, scenarioVars, jobVars, consensusVars, moreVars>>

AggNext ==
  \/ \E score \in AggScores : AggPush(score)
  \/ AggCall

\* the aggregate as the job computes it and on score lists of its own
AggregateSpec == Init /\ [][JobNext \/ AggNext]_vars

(* ---------------------- extractClaims (lib/backboard.ts) ---------------- *)
\* OCR texts that reach claim extraction: not blank
TextB == <<"W", "o", "w", "!", " ", "V", "a", "c", "c", "i", "n", "e", "s">>
ExtractTexts == {TextA, TextB}

\* the elements a reply's JSON array can hold: strings and other values
LongClaim == [isString |-> TRUE,
              text |-> <<"E", "a", "r", "t", "h", " ", "i", "s", " ", "f", "l", "a", "t">>]
ShortClaim == [isString |-> TRUE, text |-> <<"I", "t", " ", "r", "a", "i", "n", "e", "d">>]
TenClaim == [isString |-> TRUE,
             text |-> <<"S", "k", "y", " ", "i", "s", " ", "r", "e", "d">>]
NotAString == [isString |-> FALSE, text |-> <<>>]
ReplyItems == {LongClaim, ShortClaim, TenClaim, NotAString}

\* what the call can meet: a rejecting backend call, or a reply whose content
\* does not parse, parses to something that is no array, or to an array
ExtractOutcomes ==
  {[call |-> "throws", content |-> "none", arr |-> <<>>],
   [call |-> "ok", content |-> "unparseable", arr |-> <<>>],
   [call |-> "ok", content |-> "not an array", arr |-> <<>>]} \cup
  {[call |-> "ok", content |-> "array", arr |-> a] :
     a \in UNION {[1..n -> ReplyItems] : n \in 0..MaxReplyItems}}

\* ocrText.split(/[.!?]/)[0]
RECURSIVE FirstSentence(_)
FirstSentence(t) ==
  IF t = <<>> \/ Head(t) \in {".", "!", "?"} THEN <<>>
  ELSE <<Head(t)>> \o FirstSentence(Tail(t))

\* the list returned after the try block
extractFallback(text) ==
  LET firstSentence == Trim(FirstSentence(text))
  IN  IF Len(firstSentence) > 10
        THEN <<firstSentence \o <<".">> >>
        ELSE <<Slice200(text) \o <<".", ".", ".">> >>

keepsClaim(c) == c.isString /\ Len(c.text) > 10

extractClaims(text, outcome) ==
  IF outcome.call = "throws" THEN [threw |-> TRUE, value |-> <<>>]
  ELSE IF outcome.content = "array" /\ Len(outcome.arr) > 0
    THEN LET kept == SelectSeq(SubSeq(outcome.arr, 1, Min(3, Len(outcome.arr))), keepsClaim)
         IN  [threw |-> FALSE, value |-> [i \in 1..Len(kept) |-> kept[i].text]]
  ELSE [threw |-> FALSE, value |-> extractFallback(text)]

ExtractCall(text, outcome) ==
  /\ EngineIdle /\ ScenarioIdle /\ JobIdle /\ ConsensusIdle /\ ServicesIdle
  /\ ecCall' = Some([ocrText |-> text, outcome |-> outcome,
                     result |-> extractClaims(text, outcome)])
  /\ UNCHANGED <<biasVars, ocrVars, ssCall, agScores, agCall>>
  /\ UNCHANGED <<engineVars, scenarioVars, jobVars, consensusVars, moreVars>>

ExtractNext == \E text \in ExtractTexts, outcome \in ExtractOutcomes : ExtractCall(text, outcome)

\* claim extraction as the job uses it and as lib/backboard.ts implements it
ExtractionSpec == Init /\ [][JobNext \/ ExtractNext]_vars

(* ---------------------- searchSources (lib/backboard.ts) ---------------- *)
\* queries as UTF-16 code units; "hi" and "lo" stand for the two halves of a
\* surrogate pair, which slice(0, 200) of the caller can separate
SearchQueries ==
  {<<"V", "a", "c", "c", "i", "n", "e", "s">>, <<"a", "hi", "lo">>, <<"a", "hi">>}

\* encodeURIComponent throws URIError on an unpaired surrogate
RECURSIVE wellFormed(_)
wellFormed(q) ==
  IF q = <<>> THEN TRUE
  ELSE IF Head(q) = "hi" THEN Len(q) >= 2 /\ q[2] = "lo" /\ wellFormed(Tail(Tail(q)))
  ELSE Head(q) # "lo" /\ wellFormed(Tail(q))

\* the link of a result item; the sample has one page per host and age
linkOf(hit) == <<hit.host, hit.age>>

\* a Source record of the search layer, url included
sourceOf(hit) ==
  [url |-> linkOf(hit), domain |-> toSource(hit).domain, age |-> hit.age,
   credibilityScore |-> toSource(hit).credibilityScore]

\* an item whose link new URL(...) rejects
BadLink == [host |-> <<>>, age |-> 0]
SearchItemLists == UNION {[1..n -> {SearchHits[1], SearchHits[2], BadLink}] : n \in 0..MaxItems}

\* what the call can meet: the two configuration values, then the fetch
\* (throws, answers with an error status, answers 200) and the body of a 200
\* (no JSON, JSON without items, items that are no array, a list of items)
SearchOutcomes ==
  {[hasKey |-> k, hasCx |-> c, fetch |-> f, body |-> b, items |-> <<>>] :
     k \in BOOLEAN, c \in BOOLEAN, f \in {"throws", "not ok"}, b \in {"none"}} \cup
  {[hasKey |-> k, hasCx |-> c, fetch |-> "ok", body |-> b, items |-> <<>>] :
     k \in BOOLEAN, c \in BOOLEAN, b \in {"no json", "no items", "items not a list"}} \cup
  {[hasKey |-> k, hasCx |-> c, fetch |-> "ok", body |-> "items", items |-> l] :
     k \in BOOLEAN, c \in BOOLEAN, l \in SearchItemLists}

searchSources(query, outcome) ==
  IF ~outcome.hasKey \/ ~outcome.hasCx THEN [threw |-> FALSE, value |-> <<>>]
  ELSE IF ~wellFormed(query) THEN [threw |-> TRUE, value |-> <<>>]
  ELSE IF outcome.fetch # "ok" THEN [threw |-> FALSE, value |-> <<>>]
  ELSE IF outcome.body \in {"no json", "items not a list"} THEN [threw |-> FALSE, value |-> <<>>]
  ELSE IF outcome.body = "no items" THEN [threw |-> FALSE, value |-> <<>>]
  ELSE IF \E i \in 1..Len(outcome.items) : outcome.items[i] = BadLink
    THEN [threw |-> FALSE, value |-> <<>>]
  ELSE [threw |-> FALSE,
        value |-> [i \in 1..Len(outcome.items) |-> sourceOf(outcome.items[i])]]

SearchCall(query, outcome) ==
  /\ EngineIdle /\ ScenarioIdle /\ JobIdle /\ ConsensusIdle /\ ServicesIdle
  /\ ssCall' = Some([query |-> query, outcome |-> outcome,
                     result |-> searchSources(query, outcome)])
  /\ UNCHANGED <<biasVars, ocrVars, ecCall, agScores, agCall>>
  /\ UNCHANGED <<engineVars, scenarioVars, jobVars, consensusVars, moreVars>>

SearchNext == \E query \in SearchQueries, outcome \in SearchOutcomes : SearchCall(query, outcome)

\* the search as the job uses it and as lib/backboard.ts implements it
SearchSpec == Init /\ [][JobNext \/ SearchNext]_vars

(* ------------------- extractTextFromImage (lib/geminiOcr.ts) ------------ *)
maxRetries == 3
baseDelay == 2000

RECURSIVE Pow2(_)
Pow2(n) == IF n = 0 THEN 1 ELSE 2 * Pow2(n - 1)

\* a Retry-After header holds a number of seconds or an HTTP date; wait is
\* the time in seconds the server asks for
RetryAfterHeaders ==
  {[form |-> "seconds", wait |-> 1], [form |-> "seconds", wait |-> 0],
   [form |-> "date", wait |-> 30]}

\* parseInt of the header: the number, or NaN (no value) for a date, which
\* starts with the name of a weekday
parseInt(h) == IF h.form = "seconds" THEN Some(h.wait) ELSE None

\* what one request to Gemini can come back with: a fetch that throws, an
\* error status with a body (its text as the markers it contains) and possibly
\* a Retry-After header in seconds, or a 200 with a body
GeminiResponses ==
  {[kind |-> "transport", status |-> 0, body |-> {}, retryAfter |-> None, text |-> <<>>]} \cup
  {[kind |-> "status", status |-> 429, body |-> {}, retryAfter |-> ra, text |-> <<>>] :
     ra \in {None} \cup {Some(h) : h \in RetryAfterHeaders}} \cup
  {[kind |-> "status", status |-> s, body |-> b, retryAfter |-> None, text |-> <<>>] :
     s \in {403, 500}, b \in {{}, {"429"}, {"rate limit"}}} \cup
  {[kind |-> "no json", status |-> 200, body |-> {}, retryAfter |-> None, text |-> <<>>]} \cup
  {[kind |-> "text", status |-> 200, body |-> {}, retryAfter |-> None, text |-> t] :
     t \in {<<>>, Blank, <<"R", "T">>, TextA}}

RateLimitExceeded == {"Gemini", "rate limit"}
GeminiError(r) == {"Gemini"} \cup r.body
NoOcrText == {}
TransportError == {}
ParseError == {}

\* the delay before the retry of a 429
retryDelay(r, attempt) ==
  IF r.retryAfter # None
    THEN LET n == parseInt(The(r.retryAfter))
         IN  IF n = None THEN None ELSE Some(The(n) * 1000)
    ELSE Some(baseDelay * Pow2(attempt))

\* setTimeout(resolve, delay): the milliseconds waited; NaN counts as 0
waitOf(delay) == IF delay = None THEN 0 ELSE The(delay)

\* the body of the try block for one response: wait and continue, return the
\* text, or throw
tryRequest(r, attempt) ==
  IF r.kind = "transport" THEN [does |-> "throw", error |-> TransportError]
  ELSE IF r.status = 429
    THEN IF attempt < maxRetries
           THEN [does |-> "continue", delay |-> retryDelay(r, attempt)]
           ELSE [does |-> "throw", error |-> RateLimitExceeded]
  ELSE IF r.kind = "status" THEN [does |-> "throw", error |-> GeminiError(r)]
  ELSE IF r.kind = "no json" THEN [does |-> "throw", error |-> ParseError]
  ELSE IF Len(Trim(r.text)) < 3 THEN [does |-> "throw", error |-> NoOcrText]
  ELSE [does |-> "return", text |-> Trim(r.text)]

\* the catch block: TRUE if the error is rethrown, FALSE if the loop goes on
rethrows(err, attempt) ==
  \/ ~includes(err, "429") /\ ~includes(err, "rate limit")
  \/ attempt = maxRetries

\* from the key check to the start of the loop
OcrStart(hasKey, download) ==
  /\ EngineIdle /\ ScenarioIdle /\ JobIdle /\ ConsensusIdle /\ ServicesIdle
  /\ IF ~hasKey
       THEN oPc' = "thrown" /\ oError' = Some({"GEMINI_API_KEY"})
     ELSE IF download # "ok"
       THEN oPc' = "thrown" /\ oError' = Some({})
     ELSE oPc' = "loop" /\ UNCHANGED oError
  /\ UNCHANGED <<oAttempt, oRequests, oText>>
  /\ UNCHANGED <<biasVars, ecCall, ssCall, agScores, agCall>>
  /\ UNCHANGED <<engineVars, scenarioVars, jobVars, consensusVars, moreVars>>

\* one iteration of the loop: the request, the try block, the catch block
OcrAttempt(r) ==
  /\ oPc = "loop"
  /\ LET t == tryRequest(r, oAttempt)
     IN  /\ oRequests' = Append(oRequests,
                                [response |-> r, attempt |-> oAttempt,
                                 delay |-> IF t.does = "continue" THEN waitOf(t.delay) ELSE 0])
         /\ IF t.does = "return"
              THEN oPc' = "returned" /\ oText' = Some(t.text)
                   /\ UNCHANGED <<oAttempt, oError>>
            ELSE IF t.does = "continue"
              THEN oAttempt' = oAttempt + 1 /\ UNCHANGED <<oPc, oError, oText>>
            ELSE IF rethrows(t.error, oAttempt)
              THEN oPc' = "thrown" /\ oError' = Some(t.error)
                   /\ UNCHANGED <<oAttempt, oText>>
            ELSE oAttempt' = oAttempt + 1 /\ UNCHANGED <<oPc, oError, oText>>
  /\ UNCHANGED <<biasVars, ecCall, ssCall, agScores, agCall>>
  /\ UNCHANGED <<engineVars, scenarioVars, jobVars, consensusVars, moreVars>>

OcrNext ==
  \/ \E hasKey \in BOOLEAN, download \in {"ok", "not ok", "throws"} : OcrStart(hasKey, download)
  \/ \E r \in GeminiResponses : OcrAttempt(r)

OcrSpec == Init /\ [][OcrNext]_vars

(* ------------- chatAboutJob, getOrCreateAssistant (lib/backboard.ts) ---- *)
\* the analysis contexts a client sends along: none, and one per job
ContextA == <<"c", "l", "a", "i", "m", "s", " ", "o", "f", " ", "A">>
ContextB == <<"c", "l", "a", "i", "m", "s", " ", "o", "f", " ", "B">>
ShortContext == <<"n", "/", "a">>
ChatContexts == {ShortContext, ContextA, ContextB}

hasContext(contextText) == contextText # <<>> /\ Len(contextText) > 10

\* the system prompt chatAboutJob builds: the template of the mode, with the
\* context text in it when there is one
systemPromptOf(contextText, mode) ==
  [template |-> mode,
   context |-> IF hasContext(contextText) THEN contextText ELSE NoContext]

assistantNameOf(mode) ==
  IF mode = "deep_research" THEN "VerifyShot-DeepResearch" ELSE "VerifyShot-Chat"

\* the reply of the backend to a message on a thread: it is produced under
\* the system prompt of the assistant the thread was created on
replyOn(threadId) ==
  [assistant |-> chThreadAsst[threadId],
   systemPrompt |-> chAssistants[chThreadAsst[threadId]].systemPrompt]

\* after getOrCreateAssistant has returned id: the look-up in chatThreads and
\* either createThread or, with a thread at hand, addMessage
afterAssistant(call, id) ==
  LET threadId == chThreads[<<call.jobId, call.mode>>]
  IN  IF threadId = None
        THEN [call EXCEPT !.pc = "createThread", !.id = id]
        ELSE [call EXCEPT !.pc = "addMessage", !.id = id, !.threadId = The(threadId)]

\* chatAboutJob up to its first backend call; a cached assistant id takes it
\* straight to the look-up in chatThreads
ChatStart(c, jobId, contextText, mode) ==
  /\ EngineIdle /\ ScenarioIdle /\ JobIdle /\ ConsensusIdle
  /\ bPc = "idle" /\ oPc = "idle" /\ ecCall = None /\ ssCall = None
  /\ agScores = <<>> /\ agCall = None /\ slCall = None /\ baCall = None /\ ClientIdle
  /\ chCount < MaxChatRequests
  /\ chCalls[c].pc \in {"idle", "done", "thrown"}
  /\ \A d \in 1..(c - 1) : chCalls[d].pc \notin {"idle", "done", "thrown"}
  /\ chCount' = chCount + 1
  /\ LET name == assistantNameOf(mode)
         call == [IdleCall EXCEPT !.jobId = jobId, !.contextText = contextText,
                                  !.mode = mode]
     IN  IF chCache[name] # None
           THEN \* cache hit: the await resumes with the cached id
                /\ chCalls' = [chCalls EXCEPT ![c] = afterAssistant(call, The(chCache[name]))]
                /\ chReturned' = chReturned \cup {<<name, The(chCache[name])>>}
           ELSE /\ chCalls' = [chCalls EXCEPT ![c] = [call EXCEPT !.pc = "createAssistant"]]
                /\ UNCHANGED chReturned
  /\ UNCHANGED <<chCache, chAssistants, chThreads, chThreadAsst>>
  /\ UNCHANGED <<engineVars, scenarioVars, jobVars, consensusVars, serviceVars, slCall, laterVars>>

\* createAssistant settles: the backend registers a new assistant, or (a
\* backend that creates by name idempotently) answers with the one it has;
\* the cache is written and chatAboutJob goes on to its thread
ChatAssistantSettles(c, outcome) ==
  /\ chCalls[c].pc = "createAssistant"
  /\ LET call == chCalls[c]
         name == assistantNameOf(call.mode)
         have == {i \in 1..Len(chAssistants) : chAssistants[i].name = name}
     IN  IF outcome = "throws"
           THEN /\ chCalls' = [chCalls EXCEPT ![c].pc = "thrown"]
                /\ UNCHANGED <<chCache, chAssistants, chReturned>>
         ELSE IF outcome = "existing" /\ have # {}
           THEN LET id == CHOOSE i \in have : \A j \in have : i <= j
                IN  /\ chCache' = [chCache EXCEPT ![name] = Some(id)]
                    /\ chCalls' = [chCalls EXCEPT ![c] = afterAssistant(call, id)]
                    /\ chReturned' = chReturned \cup {<<name, id>>}
                    /\ UNCHANGED chAssistants
         ELSE LET id == Len(chAssistants) + 1
              IN  /\ chAssistants' =
                       Append(chAssistants,
                              [name |-> name,
                               systemPrompt |-> systemPromptOf(call.contextText, call.mode)])
                  /\ chCache' = [chCache EXCEPT ![name] = Some(id)]
                  /\ chCalls' = [chCalls EXCEPT ![c] = afterAssistant(call, id)]
                  /\ chReturned' = chReturned \cup {<<name, id>>}
  /\ UNCHANGED <<chThreads, chThreadAsst, chCount>>
  /\ UNCHANGED <<engineVars, scenarioVars, jobVars, consensusVars, serviceVars, slCall, laterVars>>

\* createThread settles; chatThreads is written and addMessage issued
ChatThreadSettles(c, ok) ==
  /\ chCalls[c].pc = "createThread"
  /\ IF ~ok
       THEN /\ chCalls' = [chCalls EXCEPT ![c].pc = "thrown"]
            /\ UNCHANGED <<chThreads, chThreadAsst>>
       ELSE LET threadId == Len(chThreadAsst) + 1
            IN  /\ chThreadAsst' = Append(chThreadAsst, chCalls[c].id)
                /\ chThreads' = [chThreads EXCEPT
                                   ![<<chCalls[c].jobId, chCalls[c].mode>>] = Some(threadId)]
                /\ chCalls' = [chCalls EXCEPT ![c].pc = "addMessage",
                                              ![c].threadId = threadId]
  /\ UNCHANGED <<chCache, chAssistants, chReturned, chCount>>
  /\ UNCHANGED <<engineVars, scenarioVars, jobVars, consensusVars, serviceVars, slCall, laterVars>>

\* addMessage (and the tool round, if any) settles; chatAboutJob returns
ChatReply(c, ok) ==
  /\ chCalls[c].pc = "addMessage"
  /\ chCalls' = [chCalls EXCEPT
                   ![c].pc = IF ok THEN "done" ELSE "thrown",
                   ![c].reply = IF ok THEN Some(replyOn(chCalls[c].threadId)) ELSE None]
  /\ UNCHANGED <<chCache, chAssistants, chThreads, chThreadAsst, chReturned, chCount>>
  /\ UNCHANGED <<engineVars, scenarioVars, jobVars, consensusVars, serviceVars, slCall, laterVars>>

ChatNext ==
  \/ \E c \in ChatCallers, jobId \in JobIds, contextText \in ChatContexts,
        mode \in ChatModes : ChatStart(c, jobId, contextText, mode)
  \/ \E c \in ChatCallers, outcome \in {"created", "existing", "throws"} :
       ChatAssistantSettles(c, outcome)
  \/ \E c \in ChatCallers, ok \in BOOLEAN : ChatThreadSettles(c, ok)
  \/ \E c \in ChatCallers, ok \in BOOLEAN : ChatReply(c, ok)

ChatSpec == Init /\ [][ChatNext]_vars

(* ------- searchWithAI, searchCombined and their parsers (lib/backboard.ts) *)
\* pages an AI reply can cite: two on one host, one on another
AiLinks ==
  {SearchHits[1], [host |-> <<"www", "foxnews", "com">>, age |-> 5], SearchHits[2]}
AiLinkLists == UNION {[1..n -> AiLinks] : n \in 0..MaxItems}

\* the content of a reply, by the form it cites its pages in: SOURCE: lines, a
\* numbered list, markdown links, a JSON array of objects, or bare URLs in prose
AiContents ==
  {[form |-> f, links |-> l] :
     f \in {"source lines", "numbered", "markdown", "json", "prose"}, l \in AiLinkLists}

\* the links of a list, each URL kept at its first occurrence (seenUrls)
RECURSIVE firstByUrl(_, _)
firstByUrl(links, seenUrls) ==
  IF links = <<>> THEN <<>>
  ELSE IF linkOf(Head(links)) \in seenUrls THEN firstByUrl(Tail(links), seenUrls)
  ELSE <<Head(links)>> \o firstByUrl(Tail(links), seenUrls \cup {linkOf(Head(links))})

\* the links of a list, each hostname kept at its first occurrence (seenDomains)
RECURSIVE firstByDomain(_, _)
firstByDomain(links, seenDomains) ==
  IF links = <<>> THEN <<>>
  ELSE IF stripWww(Head(links).host) \in seenDomains
    THEN firstByDomain(Tail(links), seenDomains)
  ELSE <<Head(links)>> \o
       firstByDomain(Tail(links), seenDomains \cup {stripWww(Head(links).host)})

sourcesOf(links) == [i \in 1..Len(links) |-> sourceOf(links[i])]

parsePerplexityResponse(content) ==
  IF content.form \in {"source lines", "numbered", "markdown"}
    THEN sourcesOf(firstByUrl(content.links, {}))
    ELSE <<>>

tryParseJSON(content) ==
  IF content.form = "json" THEN sourcesOf(content.links) ELSE <<>>

extractURLsWithContext(content) == sourcesOf(firstByDomain(content.links, {}))

\* what searchWithAI can meet
AiOutcomes ==
  {[hasKey |-> FALSE, assistant |-> "none", thread |-> "none", message |-> "none",
    fallback |-> "none", content |-> [form |-> "prose", links |-> <<>>]],
   [hasKey |-> TRUE, assistant |-> "throws", thread |-> "none", message |-> "none",
    fallback |-> "none", content |-> [form |-> "prose", links |-> <<>>]],
   [hasKey |-> TRUE, assistant |-> "ok", thread |-> "not ok", message |-> "none",
    fallback |-> "none", content |-> [form |-> "prose", links |-> <<>>]],
   [hasKey |-> TRUE, assistant |-> "ok", thread |-> "ok", message |-> "not ok",
    fallback |-> "not ok", content |-> [form |-> "prose", links |-> <<>>]]} \cup
  {[hasKey |-> TRUE, assistant |-> "ok", thread |-> "ok", message |-> m,
    fallback |-> IF m = "ok" THEN "none" ELSE "ok", content |-> c] :
     m \in {"ok", "not ok"}, c \in AiContents}

searchWithGPTFallback(outcome) ==
  IF outcome.fallback # "ok" THEN [threw |-> TRUE, value |-> <<>>]
  ELSE IF Len(tryParseJSON(outcome.content)) > 0
    THEN [threw |-> FALSE, value |-> tryParseJSON(outcome.content)]
  ELSE [threw |-> FALSE, value |-> extractURLsWithContext(outcome.content)]

searchWithAI(outcome) ==
  IF ~outcome.hasKey THEN <<>>
  ELSE IF outcome.assistant # "ok" \/ outcome.thread # "ok" THEN <<>>
  ELSE IF outcome.message # "ok"
    THEN IF searchWithGPTFallback(outcome).threw THEN <<>>
         ELSE searchWithGPTFallback(outcome).value
  ELSE IF Len(parsePerplexityResponse(outcome.content)) > 0
    THEN parsePerplexityResponse(outcome.content)
  ELSE IF Len(tryParseJSON(outcome.content)) > 0 THEN tryParseJSON(outcome.content)
  ELSE extractURLsWithContext(outcome.content)

\* the merge loop of searchCombined
RECURSIVE mergeSources(_, _)
mergeSources(aiSources, googleSources) ==
  IF googleSources = <<>> THEN aiSources
  ELSE IF \E i \in 1..Len(aiSources) : aiSources[i].url = Head(googleSources).url
    THEN mergeSources(aiSources, Tail(googleSources))
  ELSE mergeSources(Append(aiSources, Head(googleSources)), Tail(googleSources))

searchCombined(query, aiOutcome, googleOutcome) ==
  LET aiSources == searchWithAI(aiOutcome)
      google == searchSources(query, googleOutcome)
  IN  IF Len(aiSources) >= 2 THEN [threw |-> FALSE, value |-> aiSources]
      ELSE IF google.threw THEN [threw |-> TRUE, value |-> <<>>]
      ELSE [threw |-> FALSE, value |-> mergeSources(aiSources, google.value)]

AiCall(outcome) ==
  /\ EngineIdle /\ ScenarioIdle /\ JobIdle /\ ConsensusIdle /\ ServicesIdle
  /\ slCall' = Some([fn |-> "searchWithAI",
                     result |-> [threw |-> FALSE, value |-> searchWithAI(outcome)]])
  /\ UNCHANGED <<engineVars, scenarioVars, jobVars, consensusVars, serviceVars, chatVars, laterVars>>

CombinedCall(query, aiOutcome, googleOutcome) ==
  /\ EngineIdle /\ ScenarioIdle /\ JobIdle /\ ConsensusIdle /\ ServicesIdle
  /\ slCall' = Some([fn |-> "searchCombined",
                     result |-> searchCombined(query, aiOutcome, googleOutcome)])
  /\ UNCHANGED <<engineVars, scenarioVars, jobVars, consensusVars, serviceVars, chatVars, laterVars>>

\* the Google fallback of searchCombined: configured, or not configured at all
GoogleOutcomes ==
  {o \in SearchOutcomes : (o.hasKey /\ o.hasCx) \/ (~o.hasKey /\ ~o.hasCx /\ o.fetch = "throws")}

SearchLayerNext ==
  \/ SearchNext
  \/ \E outcome \in AiOutcomes : AiCall(outcome)
  \/ \E query \in SearchQueries, aiOutcome \in AiOutcomes, googleOutcome \in GoogleOutcomes :
       CombinedCall(query, aiOutcome, googleOutcome)

SearchLayerSpec == Init /\ [][SearchLayerNext]_vars

(* ------------------- bias aggregation, on its own ---------------------- *)
\* three assessments of one perspective (or, for detectBias, the three
\* perspective results): political bias and sensationalism in hundredths, as
\* assessBias clamps them, and the reasoning text
triple(b1, b2, b3, sens, reasoning) ==
  << [politicalBias |-> b1, sensationalism |-> sens, reasoning |-> reasoning],
     [politicalBias |-> b2, sensationalism |-> sens, reasoning |-> reasoning],
     [politicalBias |-> b3, sensationalism |-> sens, reasoning |-> reasoning] >>

BiasTriples ==
  { triple(10, 10, 10, 30, "assessed"),
    triple(-10, -10, -10, 30, "assessed"),
    triple(0, 0, 0, 30, "Error"),
    triple(20, -20, 0, 50, "emotional framing"),
    triple(30, -30, 30, 50, "assessed"),
    triple(-30, 0, 0, 45, "loaded terms, omits context"),
    triple(60, -60, 60, 80, "emotional framing"),
    triple(50, 50, 50, 75, "assessed"),
    triple(-50, -50, -50, 75, "loaded terms, omits context"),
    triple(-50, -50, -54, 40, "assessed"),
    triple(15, 15, 15, 30, "assessed"),
    triple(-15, -15, -15, 30, "assessed"),
    triple(100, -100, 100, 100, "emotional framing"),
    triple(100, 100, 100, 100, "assessed") }

\* detectBiasMultiPerspective, Steps 3 and 4, on nine settled assessments
AggregateNine(left, right, intl) ==
  /\ EngineIdle /\ ScenarioIdle /\ JobIdle /\ ConsensusIdle /\ ServicesIdle
  /\ baCall' = Some([fn |-> "detectBiasMultiPerspective",
                     assessments |-> left \o right \o intl,
                     result |-> aggregateBias(left \o right \o intl)])
  /\ UNCHANGED <<engineVars, scenarioVars, jobVars, consensusVars, serviceVars, chatVars,
                 slCall, bOutOfOrder, clientVars>>

\* detectBias, Step 3, on its three perspective results
AggregateThree(results) ==
  /\ EngineIdle /\ ScenarioIdle /\ JobIdle /\ ConsensusIdle /\ ServicesIdle
  /\ baCall' = Some([fn |-> "detectBias", assessments |-> results,
                     result |-> detectBiasAggregate(results)])
  /\ UNCHANGED <<engineVars, scenarioVars, jobVars, consensusVars, serviceVars, chatVars,
                 slCall, bOutOfOrder, clientVars>>

BiasAggNext ==
  \/ /\ baCall = None /\ JobIdle /\ ServicesIdle
     /\ \E left \in BiasTriples, right \in BiasTriples, intl \in BiasTriples :
          AggregateNine(left, right, intl)
  \/ \E results \in BiasTriples : AggregateThree(results)

BiasAggSpec == Init /\ [][BiasAggNext]_vars

\* the bias analysis with its concurrent assessments, and the aggregation alone
BiasOrderSpec == Init /\ [][BiasNext \/ BiasAggNext]_vars

\* what produces the BiasSignals of an analysis: the job and the aggregators
BiasSignalsSpec == Init /\ [][JobNext \/ BiasAggNext]_vars

(* ----------------- the client: AppState's analysis state ---------------- *)
MaxAnalyses == 2
Images == {"imageA", "imageB"}

\* what api.analyzeImage(image) returns for the task that sent it
resultOf(t, image) == [jobId |-> t, image |-> image, imageUrl |-> image]

\* analyzeScreenshot(image), up to the start of its Task
AnalyzeScreenshot(image) ==
  /\ EngineIdle /\ ScenarioIdle /\ JobIdle /\ ConsensusIdle
  /\ bPc = "idle" /\ oPc = "idle" /\ ecCall = None /\ ssCall = None
  /\ agScores = <<>> /\ agCall = None /\ ChatIdle /\ slCall = None /\ baCall = None
  /\ Len(tasks) < MaxAnalyses
  /\ screenshotImage' = Some(image)
  /\ isAnalyzing' = TRUE
  /\ analysisError' = None
  /\ progressText' = "Uploading screenshot"
  /\ tasks' = Append(tasks, [image |-> image, pc |-> "in flight", reset |-> FALSE])
  /\ UNCHANGED <<clientImageUrl, analysisResult, showAnalysis, selectedTab, history>>
  /\ UNCHANGED <<engineVars, scenarioVars, jobVars, consensusVars, serviceVars, chatVars,
                 slCall, baCall, bOutOfOrder>>

\* the Task of one analyzeScreenshot call: api.analyzeImage returned
TaskSucceeds(t) ==
  /\ tasks[t].pc = "in flight"
  /\ analysisResult' = Some(resultOf(t, tasks[t].image))
  /\ clientImageUrl' = Some(resultOf(t, tasks[t].image).imageUrl)
  /\ isAnalyzing' = FALSE
  /\ showAnalysis' = TRUE
  /\ selectedTab' = "results"
  /\ history' = <<resultOf(t, tasks[t].image)>> \o history
  /\ tasks' = [tasks EXCEPT ![t].pc = "done"]
  /\ UNCHANGED <<screenshotImage, analysisError, progressText>>
  /\ UNCHANGED <<engineVars, scenarioVars, jobVars, consensusVars, serviceVars, chatVars,
                 slCall, baCall, bOutOfOrder>>

\* the Task of one analyzeScreenshot call: api.analyzeImage threw
TaskFails(t) ==
  /\ tasks[t].pc = "in flight"
  /\ analysisError' = Some("error")
  /\ isAnalyzing' = FALSE
  /\ tasks' = [tasks EXCEPT ![t].pc = "failed"]
  /\ UNCHANGED <<screenshotImage, clientImageUrl, analysisResult, progressText,
                 showAnalysis, selectedTab, history>>
  /\ UNCHANGED <<engineVars, scenarioVars, jobVars, consensusVars, serviceVars, chatVars,
                 slCall, baCall, bOutOfOrder>>

\* resetForNewScreenshot, once an analysis has been started (before that it
\* changes nothing); the chat fields it clears are not part of this model.
\* The tasks started so far are marked as started before a reset.
ResetForNewScreenshot ==
  /\ ~ClientIdle
  /\ screenshotImage' = None
  /\ clientImageUrl' = None
  /\ analysisResult' = None
  /\ analysisError' = None
  /\ showAnalysis' = FALSE
  /\ progressText' = ""
  /\ tasks' = [t \in 1..Len(tasks) |-> [tasks[t] EXCEPT !.reset = TRUE]]
  /\ UNCHANGED <<isAnalyzing, selectedTab, history>>
  /\ UNCHANGED <<engineVars, scenarioVars, jobVars, consensusVars, serviceVars, chatVars,
                 slCall, baCall, bOutOfOrder>>

ClientNext ==
  \/ \E image \in Images : AnalyzeScreenshot(image)
  \/ \E t \in 1..Len(tasks) : TaskSucceeds(t)
  \/ \E t \in 1..Len(tasks) : TaskFails(t)
  \/ ResetForNewScreenshot

ClientSpec == Init /\ [][ClientNext]_vars

(* ------------------------------ the system ----------------------------- *)
Next ==
  \/ ScoreNext \/ ScenarioNext \/ JobNext \/ ConsensusNext
  \/ BiasNext \/ AggNext \/ ExtractNext \/ SearchLayerNext \/ OcrNext
  \/ ChatNext \/ BiasAggNext \/ ClientNext

Spec == Init /\ [][Next]_vars

\* the verifier as the job uses it and as lib/backboard.ts implements it
VerifierNext == JobNext \/ ConsensusNext
VerifierSpec == Init /\ [][VerifierNext]_vars

(* ============================ properties =============================== *)
\* the job's view of its own outcome
Settled == settled # None
ReturnedResult == Settled /\ The(settled).kind = "result"
TheResult == The(settled).result
SearchDone == sources # None
\* number of the job's sources with credibility >= 0.7
HighCount ==
  Cardinality({i \in 1..Len(The(sources)) : The(sources)[i].credibilityScore >= 70})
GateFailed == SearchDone /\ extractedClaims # None /\ HighCount < 3
GatePassed == SearchDone /\ extractedClaims # None /\ HighCount >= 3
\* the three verifications of claim c, once all are settled
VerificationsOf(c) == [m \in 1..Len(ROSTER) |-> The(allVerifications[c][m])]
VerdictCount(c, v) ==
  Cardinality({m \in 1..Len(ROSTER) : VerificationsOf(c)[m].verdict = v})

(* C1: whenever analyzeImage has settled in a job whose search produced fewer
   than 3 sources of credibility >= 0.7, it has returned a result (not thrown)
   whose claims are the extracted ones, each with verdict unable_to_verify and
   trustScore 0, with aggregateTrustScore 0 and trustLabel "Unable to Verify". *)
C1_QualityGate ==
  (Settled /\ GateFailed) =>
    /\ ReturnedResult
    /\ Len(TheResult.claims) = Len(The(extractedClaims))
    /\ \A i \in 1..Len(TheResult.claims) :
         /\ TheResult.claims[i].text = The(extractedClaims)[i]
         /\ TheResult.claims[i].verdict = "unable_to_verify"
         /\ TheResult.claims[i].trustScore = 0
    /\ TheResult.aggregateTrustScore = 0
    /\ TheResult.trustLabel = "Unable to Verify"

\* a job returned for three sources of which two reach 0.7, one of them at
\* exactly 0.7, with a claim in the result
C1_Witness ==
  /\ ReturnedResult /\ GateFailed
  /\ Len(The(sources)) = 3 /\ HighCount = 2
  /\ The(sources)[1].credibilityScore = 70
  /\ Len(TheResult.claims) >= 1

(* C2: in every returned result and for every claim of it, verdict =
   unable_to_verify, trustScore = 0, and "no verification was issued for the
   claim because the gate failed" are equivalent; a verified claim never has
   trustScore 0. *)
C2_ClaimInvariant ==
  ReturnedResult =>
    \A i \in 1..Len(TheResult.claims) :
      LET unable == TheResult.claims[i].verdict = "unable_to_verify"
          zero == TheResult.claims[i].trustScore = 0
          unsent == GateFailed /\ allVerifications = <<>> /\ calls.verify = 0
      IN  (unable <=> zero) /\ (zero <=> unsent)

\* a verified claim all of whose model confidences are 0
C2_Witness ==
  /\ ReturnedResult /\ GatePassed
  /\ Len(TheResult.claims) >= 1
  /\ \A m \in 1..Len(ROSTER) : TheResult.claims[1].modelVerdicts[m].confidence = 0
  /\ TheResult.claims[1].trustScore > 0

(* C3 as stated: once analyzeImage has settled in a job whose gate failed, no
   model-verification and no bias-assessment call was issued, the job returned
   a result, and the handler answered 200. *)
C3_Original ==
  (Settled /\ GateFailed) =>
    /\ calls.verify = 0 /\ calls.bias = 0
    /\ ReturnedResult
    /\ response # None /\ The(response).status = 200

(* C3 amended: as above, but the handler's answer is the 200 carrying the
   result unless the 55 s timer fired before analyzeImage returned, in which
   case it is the timed-out error. *)
C3_GateShortCircuit ==
  (Settled /\ GateFailed) =>
    /\ calls.verify = 0 /\ calls.bias = 0
    /\ ReturnedResult
    /\ response # None
    /\ \/ The(response) = okResponse(TheResult)
       \/ timer = "fired" /\ The(response) = errorResponse(TimedOut)

\* a gate-failed job answered 200 with its result, sources having been found
C3_Witness ==
  /\ ReturnedResult /\ GateFailed
  /\ Len(The(sources)) >= 3
  /\ Len(The(extractedClaims)) >= 1
  /\ calls.verify = 0
  /\ The(response) = okResponse(TheResult)

(* C4: every score calculateTrustScore returns is an integer from 0 to 100. *)
C4_ScoreBounded ==
  tsCall # None => The(tsCall).score \in 0..100

\* a call whose weighted sum is negative: one old source of credibility 0.01,
\* no model confidence, full bias penalty
C4_Witness ==
  /\ tsCall # None
  /\ tsSources = <<Source(1, 365)>>
  /\ The(tsCall).modelConsensus = Zero
  /\ The(tsCall).biasPenalty = One
  /\ The(tsCall).score = 0

\* the majority of the three verdicts returned for claim c
C5_Expected(c) ==
  IF VerdictCount(c, "likely_true") >= 2 THEN "likely_true"
  ELSE IF VerdictCount(c, "likely_misleading") >= 2 THEN "likely_misleading"
  ELSE "mixed"

(* C5: for every verified claim, the final verdict is likely_true if at least
   2 of the 3 model verdicts are likely_true, likely_misleading if at least 2
   are likely_misleading, mixed otherwise; modelAgreement is the number of
   verdicts equal to the final one over 3; each agrees flag says whether that
   model's verdict is the final one. *)
C5_ConsensusRule ==
  (ReturnedResult /\ GatePassed) =>
    \A c \in 1..Len(TheResult.claims) :
      /\ TheResult.claims[c].verdict = C5_Expected(c)
      /\ modelAgreementOf(VerificationsOf(c)) = Q(VerdictCount(c, C5_Expected(c)), 3)
      /\ \A m \in 1..Len(ROSTER) :
           /\ TheResult.claims[c].modelVerdicts[m].verdict = VerificationsOf(c)[m].verdict
           /\ TheResult.claims[c].modelVerdicts[m].agrees =
                (VerificationsOf(c)[m].verdict = C5_Expected(c))

\* verdicts [likely_true, likely_misleading, mixed]: no majority, final mixed,
\* one model agreeing
C5_Witness ==
  /\ ReturnedResult /\ GatePassed
  /\ Len(TheResult.claims) >= 1
  /\ VerificationsOf(1)[1].verdict = "likely_true"
  /\ VerificationsOf(1)[2].verdict = "likely_misleading"
  /\ VerificationsOf(1)[3].verdict = "mixed"
  /\ TheResult.claims[1].verdict = "mixed"
  /\ modelAgreementOf(VerificationsOf(1)) = Q(1, 3)

(* C6: in getModelConsensus every settled branch has produced the verdict of
   its own roster model from its own call alone: a call that threw or returned
   unparseable output gives agrees false with confidence 0, any other gives the
   parsed agrees with the confidence clamped to [0,1]; the call never rejects
   and returns 3 verdicts in roster order. In the job, once the gate has
   passed, analyzeImage never throws and every claim of its result carries 3
   model verdicts in roster order with a final verdict. *)
C6_PartialFailure ==
  /\ gcPc # "thrown"
  /\ \A i \in 1..Len(perspectives) :
       gcOutcomes[i] # None =>
         /\ gcVerdicts[i] # None
         /\ The(gcVerdicts[i]).modelName = perspectives[i]
         /\ IF The(gcOutcomes[i]).threw
              THEN The(gcVerdicts[i]).confidence = 0 /\ ~The(gcVerdicts[i]).agrees
              ELSE /\ The(gcVerdicts[i]).agrees = The(gcOutcomes[i]).agrees
                   /\ The(gcVerdicts[i]).confidence \in 0..100
                   /\ The(gcOutcomes[i]).confidence \in {Some(c) : c \in 0..100} =>
                        The(gcVerdicts[i]).confidence = The(The(gcOutcomes[i]).confidence)
  /\ gcPc = "returned" => \A i \in 1..Len(perspectives) : gcVerdicts[i] # None
  /\ GatePassed => pc # "thrown"
  /\ (ReturnedResult /\ GatePassed) =>
       \A c \in 1..Len(TheResult.claims) :
         /\ Len(TheResult.claims[c].modelVerdicts) = 3
         /\ \A m \in 1..3 : TheResult.claims[c].modelVerdicts[m].modelName = ROSTER[m]
         /\ TheResult.claims[c].verdict \in {"likely_true", "mixed", "likely_misleading"}

\* getModelConsensus returned after exactly one of its three branches failed
C6_Witness ==
  /\ gcPc = "returned"
  /\ The(gcOutcomes[2]).threw
  /\ ~The(gcOutcomes[1]).threw /\ ~The(gcOutcomes[3]).threw
  /\ The(gcVerdicts[2]).confidence = 0
  /\ The(gcVerdicts[1]).confidence = 50 /\ The(gcVerdicts[1]).agrees
  /\ The(gcVerdicts[3]).confidence = 100

\* the engine's arguments, as the standalone calls enumerate them
EngineSources == {Source(c, a) : c \in ScoreCreds, a \in AgeDays}
EngineSourceLists == UNION {[1..n -> EngineSources] : n \in 0..MaxScoreSources}

(* C7 as stated: for fixed sources, fixed average confidence > 0 and fixed bias
   penalty the score is non-decreasing in modelAgreement, and for at least one
   input it is strictly higher at modelAgreement 1 than at 1/3. *)
C7_AgreementBoost ==
  /\ \A srcs \in EngineSourceLists, mc \in ModelConsensusValues \ {Zero},
        bp \in BiasPenaltyValues, ma1 \in ModelAgreementValues,
        ma2 \in ModelAgreementValues :
       RLess(ma1, ma2) =>
         calculateTrustScore(srcs, mc, bp, ma1) <= calculateTrustScore(srcs, mc, bp, ma2)
  /\ \E srcs \in EngineSourceLists, mc \in ModelConsensusValues \ {Zero},
        bp \in BiasPenaltyValues :
       calculateTrustScore(srcs, mc, bp, One) > calculateTrustScore(srcs, mc, bp, Q(1, 3))

\* the weighted formula as the claim writes it
C8_Mean(srcs) ==
  RDivInt(RSum([i \in 1..Len(srcs) |-> Hundredths(srcs[i].credibilityScore)]),
          Len(srcs))
C8_HighFraction(srcs) ==
  Q(Cardinality({i \in 1..Len(srcs) : srcs[i].credibilityScore >= 70}), Len(srcs))
C8_Bucket(days) ==
  IF days < 7 THEN One ELSE IF days < 30 THEN Q(9, 10)
  ELSE IF days < 365 THEN Q(7, 10) ELSE Q(4, 10)
C8_Recency(srcs) ==
  RDivInt(RSum([i \in 1..Len(srcs) |-> C8_Bucket(srcs[i].age)]), Len(srcs))
C8_Formula(srcs, mc, bp) ==
  LET sum == RSub(RAdd(RAdd(RAdd(RMul(Q(45, 100), C8_Mean(srcs)),
                                 RMul(Q(30, 100), mc)),
                            RMul(Q(10, 100), C8_Recency(srcs))),
                       RMul(Q(10, 100), C8_HighFraction(srcs))),
                  RMul(Q(5, 100), bp))
  IN  MathRound(RMul(Q(100, 1), RMax(Zero, RMin(One, sum))))

(* C8 as stated: for a non-empty source list the returned score is
   round(100 * clamp(0.45 sourceQuality + 0.30 modelConsensus + 0.10 recency
   + 0.10 independentAgreement - 0.05 biasPenalty, 0, 1)) with sourceQuality
   the mean of the sources' credibilities, a credibility of 0 included. *)
C8_WeightedFormula ==
  (tsCall # None /\ Len(tsSources) > 0) =>
    The(tsCall).score =
      C8_Formula(tsSources, The(tsCall).modelConsensus, The(tsCall).biasPenalty)

(* C9 as stated: with no sources, modelConsensus 0.9 and biasPenalty 0 the
   returned score is 50. *)
C9_Original ==
  (tsCall # None /\ tsSources = <<>> /\ The(tsCall).modelConsensus = Q(9, 10)
     /\ The(tsCall).biasPenalty = Zero) =>
    The(tsCall).score = 50

(* C9 amended: with no sources the score is round(100 * (0.20 * 0.3 + 0.50 *
   modelConsensus + 0.05 * 0 + 0.05 * 0.3 - 0.05 * biasPenalty)) clamped to
   0..100, which for modelConsensus 0.9 and biasPenalty 0 is 53
   (0.06 + 0.45 + 0 + 0.015 = 0.525). *)
C9_NoSourceDefault ==
  (tsCall # None /\ tsSources = <<>>) =>
    /\ The(tsCall).score =
         Max(0, Min(100, MathRound(RMul(Q(100, 1),
           RSub(RAdd(RAdd(RMul(Q(20, 100), Q(3, 10)),
                          RMul(Q(50, 100), The(tsCall).modelConsensus)),
                     RAdd(RMul(Q(5, 100), Zero), RMul(Q(5, 100), Q(3, 10)))),
                RMul(Q(5, 100), The(tsCall).biasPenalty))))))
    /\ (The(tsCall).modelConsensus = Q(9, 10) /\ The(tsCall).biasPenalty = Zero) =>
         The(tsCall).score = 53

\* the call of the example: no sources, modelConsensus 0.9, biasPenalty 0
C9_Witness ==
  /\ tsCall # None /\ tsSources = <<>>
  /\ The(tsCall).modelConsensus = Q(9, 10)
  /\ The(tsCall).biasPenalty = Zero
  /\ The(tsCall).score = 53

(* C10 as stated: in the documented scenario the gate passes, the final verdict
   is likely_misleading, modelAgreement is 1, and the claim's trust score is
   below 40 (the "Likely Misleading" band), whatever the age of the sources. *)
C10_Scenario ==
  scResult # None =>
    /\ The(scResult).gatePassed
    /\ The(scResult).result.claims[1].verdict = "likely_misleading"
    /\ The(scResult).modelAgreement = One
    /\ The(scResult).result.claims[1].trustScore < 40
    /\ trustLabel(The(scResult).result.claims[1].trustScore) = "Likely Misleading"

\* the bias analysis: which assessments failed, and their values
BiasEntry(i) == The(bEntries[i])
BiasEntryFailed(i) == BiasEntry(i).assessment.reasoning = "Error"

\* the clamped values the nine replies stand for, written out
C11_Values ==
  << <<-80, 90>>, <<-60, 70>>, <<-100, 50>>, <<60, 30>>, <<40, 40>>, <<20, 100>>,
     <<0, 10>>, <<10, 20>>, <<-10, 35>> >>
C11_Order ==
  << <<"us-left", "GPT-4o">>, <<"us-left", "Claude 3.5 Sonnet">>,
     <<"us-left", "Gemini 1.5 Pro">>, <<"us-right", "GPT-4o">>,
     <<"us-right", "Claude 3.5 Sonnet">>, <<"us-right", "Gemini 1.5 Pro">>,
     <<"international", "GPT-4o">>, <<"international", "Claude 3.5 Sonnet">>,
     <<"international", "Gemini 1.5 Pro">> >>
C11_BiasSum(from, to) ==
  LET v(i) == BiasEntry(i).assessment.politicalBias
  IN  IF from = 1 /\ to = 9
        THEN v(1) + v(2) + v(3) + v(4) + v(5) + v(6) + v(7) + v(8) + v(9)
        ELSE v(from) + v(from + 1) + v(from + 2)
C11_SensSum(from, to) ==
  LET v(i) == BiasEntry(i).assessment.sensationalism
  IN  IF from = 1 /\ to = 9
        THEN v(1) + v(2) + v(3) + v(4) + v(5) + v(6) + v(7) + v(8) + v(9)
        ELSE v(from) + v(from + 1) + v(from + 2)

(* C11: whichever of the 9 assessment calls fail (thread creation, message
   HTTP error, no JSON in the reply, a thrown exception, a rejected promise),
   every settled assessment is recorded at its own perspective-by-model slot, a
   failed one as politicalBias 0 and sensationalism 0.3, a successful one with
   its own values whatever its siblings did; the analysis never throws once
   the assessments have started, and its result lists exactly 9 assessments in
   the fixed order, with overall and per-perspective means taken over all 9
   (3 per perspective), the failed ones included. *)
C11_BiasFailureTolerance ==
  /\ \A i \in 1..9 :
       bEntries[i] # None =>
         /\ bPc \in {"assessing", "returned"}
         /\ BiasEntry(i).update.perspective = C11_Order[i][1]
         /\ BiasEntry(i).update.modelName = C11_Order[i][2]
         /\ BiasEntry(i).update.status = "complete"
         /\ BiasEntry(i).update.bias = BiasEntry(i).assessment.politicalBias
         /\ BiasEntry(i).update.sensationalism = BiasEntry(i).assessment.sensationalism
         /\ IF BiasEntryFailed(i)
              THEN /\ BiasEntry(i).assessment.politicalBias = 0
                   /\ BiasEntry(i).assessment.sensationalism = 30
              ELSE /\ BiasEntry(i).assessment.politicalBias = C11_Values[i][1]
                   /\ BiasEntry(i).assessment.sensationalism = C11_Values[i][2]
  /\ bResult # None =>
       /\ bPc = "returned"
       /\ bResponse = Some([status |-> 200, result |-> The(bResult)])
       /\ Len(The(bResult).modelAssessments) = 9
       /\ \A i \in 1..9 : The(bResult).modelAssessments[i] = BiasEntry(i).update
       /\ The(bResult).biasSignals.politicalBias = MathRound(Q(C11_BiasSum(1, 9), 9))
       /\ The(bResult).biasSignals.sensationalism = MathRound(Q(C11_SensSum(1, 9), 9))
       /\ The(bResult).perspectives.usLeft.bias = MathRound(Q(C11_BiasSum(1, 3), 3))
       /\ The(bResult).perspectives.usRight.bias = MathRound(Q(C11_BiasSum(4, 6), 3))
       /\ The(bResult).perspectives.international.bias = MathRound(Q(C11_BiasSum(7, 9), 3))
       /\ The(bResult).perspectives.usLeft.sensationalism = MathRound(Q(C11_SensSum(1, 3), 3))
       /\ The(bResult).perspectives.usRight.sensationalism = MathRound(Q(C11_SensSum(4, 6), 3))
       /\ The(bResult).perspectives.international.sensationalism =
            MathRound(Q(C11_SensSum(7, 9), 3))

\* the analysis returned with the 2nd and 5th assessment failed and the other
\* seven successful: overall bias -100/9, sensationalism 395/9
C11_Witness ==
  /\ bResult # None
  /\ \A i \in 1..9 : BiasEntryFailed(i) <=> i \in {2, 5}
  /\ The(bResult).biasSignals.politicalBias = -11
  /\ The(bResult).biasSignals.sensationalism = 44
  /\ The(bResult).perspectives.usLeft.sensationalism = 57

(* C12 as stated: no failing backend call of the bias analysis, the list or
   create call resolving a perspective's assistant included, makes the analysis
   throw; the request that started it is answered 200 with the result. *)
C12_NoEscalation ==
  /\ bPc # "thrown"
  /\ (bPc \in {"assistants", "assessing", "returned"} /\ bResponse # None) =>
       The(bResponse).status = 200

\* m is the mean of the scores rounded to the nearest integer, halves upwards
C13_IsRoundedMean(m, scores) ==
  LET n == Len(scores)
      sum == SumInts(scores)
  IN  IF n = 0 THEN m = 0
      ELSE 2 * n * m - n <= 2 * sum /\ 2 * sum < 2 * n * m + n
C13_Label(aggregate) ==
  CASE aggregate >= 75 -> "Likely True"
    [] aggregate >= 40 /\ aggregate < 75 -> "Unverified / Mixed"
    [] aggregate < 40 -> "Likely Misleading"

(* C13: in every result of a gate-passing job, and for every list of per-claim
   scores given to the same computation, aggregateTrustScore is the mean of the
   per-claim trust scores rounded to an integer (0 for no claims) and
   trustLabel is "Likely True" from 75, "Unverified / Mixed" from 40 and
   "Likely Misleading" below. *)
C13_AggregateAndLabel ==
  /\ (ReturnedResult /\ GatePassed) =>
       /\ C13_IsRoundedMean(TheResult.aggregateTrustScore,
            [i \in 1..Len(TheResult.claims) |-> TheResult.claims[i].trustScore])
       /\ TheResult.trustLabel = C13_Label(TheResult.aggregateTrustScore)
  /\ agCall # None =>
       /\ C13_IsRoundedMean(The(agCall).aggregateTrustScore, agScores)
       /\ The(agCall).trustLabel = C13_Label(The(agCall).aggregateTrustScore)

\* scores 39 and 40: mean 39.5, aggregate 40, on the threshold of the label
C13_Witness ==
  /\ agCall # None
  /\ agScores = <<39, 40>>
  /\ The(agCall).aggregateTrustScore = 40
  /\ The(agCall).trustLabel = "Unverified / Mixed"

(* C14: in every execution of analyzeImage, claim extraction and source search
   have been started only if OCR returned text that is not empty after
   trimming, and then once each after the single OCR call; the quality gate has
   been evaluated (the job verifies, or has returned) only with both the claim
   list and the source list settled; model-verification calls have been issued
   only if the gate passed, 3 per claim; and a gate-passing job has returned a
   result only with the verification of every claim by every model settled. *)
C14_StageOrdering ==
  /\ (calls.extract > 0 \/ calls.search > 0) =>
       /\ Trim(ocrText) # <<>>
       /\ calls.ocr = 1 /\ calls.extract = 1 /\ calls.search = 1
  /\ (extractedClaims # None \/ sources # None) => calls.extract = 1 /\ calls.search = 1
  /\ (pc = "verify" \/ ReturnedResult) => extractedClaims # None /\ sources # None
  /\ calls.verify > 0 =>
       /\ SearchDone /\ extractedClaims # None
       /\ HighCount >= 3
       /\ calls.verify = 3 * Len(The(extractedClaims))
  /\ pc = "step2" => calls.verify = 0 /\ allVerifications = <<>>
  /\ (ReturnedResult /\ GatePassed) =>
       /\ Len(allVerifications) = Len(The(extractedClaims))
       /\ \A c \in 1..Len(allVerifications) : \A m \in 1..3 :
            allVerifications[c][m] # None

\* a gate-passing job returned its result after all three verifications of its
\* claim had settled
C14_Witness ==
  /\ ReturnedResult /\ GatePassed
  /\ Len(The(extractedClaims)) = 1
  /\ calls = [ocr |-> 1, extract |-> 1, search |-> 1, verify |-> 3, bias |-> 0]
  /\ \A m \in 1..3 : allVerifications[1][m] # None

(* C15 as stated: every gate-passing job runs the bias assessments between
   verification and synthesis, so a returned gate-passing result has issued its
   9 perspective-by-model assessment calls and carries their aggregate as the
   biasSignals of each claim. *)
C15_BiasStage ==
  (ReturnedResult /\ GatePassed) =>
    /\ calls.bias = 9
    /\ \A c \in 1..Len(TheResult.claims) :
         TheResult.claims[c].biasSignals # PlaceholderBias

\* the job failed in Step 1: analyzeImage threw before any later stage started
OcrFailed == pc = "thrown" /\ extractedClaims = None /\ sources = None /\ calls.verify = 0

(* C16: when the OCR call throws or returns text that is empty after trimming,
   analyzeImage throws having made one OCR call and no claim-extraction, search
   or verification call; the error is the "No text found" error for empty text
   and an OCR or rate-limit error otherwise; and the handler's response is a
   500 carrying an error and a hint (the thrown error, or the timeout error if
   the timer fired first), never a result. *)
C16_OcrFatal ==
  /\ (pc = "ocr" \/ OcrFailed) => calls.ocr = 1
  /\ OcrFailed =>
       /\ calls = [ocr |-> 1, extract |-> 0, search |-> 0, verify |-> 0, bias |-> 0]
       /\ Settled /\ The(settled).kind = "error"
       /\ IF ocrText # <<>>
            THEN Trim(ocrText) = <<>> /\ The(settled).error = NoTextFound
            ELSE \/ "OCR failed" \in The(settled).error
                 \/ "rate limit" \in The(settled).error
       /\ response # None
       /\ The(response).status = 500
       /\ DOMAIN The(response) = {"status", "error", "hint"}
       /\ \/ The(response).error = The(settled).error
          \/ timer = "fired" /\ The(response).error = TimedOut
  /\ (pc = "thrown") => OcrFailed

\* OCR returned blank text: the job threw "No text found" and the handler
\* answered 500 with the generic hint
C16_Witness ==
  /\ OcrFailed
  /\ ocrText = Blank
  /\ The(response) = [status |-> 500, error |-> NoTextFound, hint |-> "logs"]

(* C17 as stated: whenever OCR succeeded, the claim list the job continues with
   holds between 1 and 3 claims, and exactly the one synthetic claim of the
   fallback after an extraction that failed; a claim extraction that returns
   does so with 1 to 3 claims, whatever the backend replied. *)
C17_ExtractionFallback ==
  /\ extractedClaims # None => Len(The(extractedClaims)) \in 1..3
  /\ (ecCall # None /\ ~The(ecCall).result.threw) =>
       Len(The(ecCall).result.value) \in 1..3

\* the search met a missing key, a failed request or results it cannot read
SearchFailed(call) ==
  \/ ~call.outcome.hasKey \/ ~call.outcome.hasCx
  \/ call.outcome.fetch # "ok"
  \/ call.outcome.body # "items"
  \/ \E i \in 1..Len(call.outcome.items) : call.outcome.items[i] = BadLink

\* a job whose search produced the empty list goes on to the gate and, once
\* settled, has returned the unable-to-verify result
SearchFailureContinues ==
  (sources = Some(<<>>)) =>
    /\ pc \in {"step2", "returned"}
    /\ Settled => (ReturnedResult /\ TheResult.trustLabel = "Unable to Verify"
                   /\ TheResult.aggregateTrustScore = 0)

(* C18 as stated: the search call never throws to its caller, and returns the
   empty list on a missing key, a non-OK status, a network exception or
   malformed results; a job whose search failed continues with an empty source
   list and returns normally with the unable-to-verify result. *)
C18_SearchRecovery ==
  /\ ssCall # None =>
       /\ ~The(ssCall).result.threw
       /\ SearchFailed(The(ssCall)) => The(ssCall).result.value = <<>>
  /\ SearchFailureContinues

\* one step of the handler while the race of line 90 is on
C19_Step ==
  /\ response # None => response' = response
  /\ (timer = "armed" /\ timer' = "fired" /\ response = None) =>
       /\ response' = Some(errorResponse(TimedOut))
       /\ The(response').status = 500
       /\ includes(The(response').error, "timed out")
       /\ The(response').hint = "timeout"
       /\ "result" \notin DOMAIN The(response')
  /\ (settled = None /\ settled' # None /\ response = None) =>
       response' = Some(IF The(settled').kind = "result"
                          THEN okResponse(The(settled').result)
                          ELSE errorResponse(The(settled').error))

(* C19: for every interleaving of the 55 s timer and the completion of
   analyzeImage the handler sends one response: a response sent is never
   replaced; the timer firing first sends the 500 whose error says the analysis
   timed out and whose hint is the timeout hint, and no result; analyzeImage
   settling first sends its outcome, and the timer firing later sends nothing;
   a request is answered once the timer has fired or analyzeImage has settled. *)
C19_DeadlineHandling ==
  /\ []((timer = "fired" \/ settled # None) => response # None)
  /\ [][C19_Step]_vars

\* the timer fired first and analyzeImage returned a result afterwards: the
\* response is still the timeout error
C19_Witness ==
  /\ timer = "fired"
  /\ ReturnedResult
  /\ response = Some(errorResponse(TimedOut))

\* a request that failed otherwise than by the rate-limit status
OtherFailure(req) ==
  \/ req.response.kind \in {"transport", "no json"}
  \/ req.response.kind = "status" /\ req.response.status # 429
  \/ req.response.kind = "text" /\ Len(Trim(req.response.text)) < 3

(* C20 as stated: a failure of the Gemini call that is not a rate-limit signal
   (an error status other than 429 whatever the body says, an empty extraction,
   a transport error) is never retried: no request follows it, and the call
   has thrown that failure. *)
C20_RetryOnlyRateLimit ==
  \A i \in 1..Len(oRequests) :
    OtherFailure(oRequests[i]) =>
      /\ i = Len(oRequests)
      /\ oPc = "thrown"
      /\ oError = Some(tryRequest(oRequests[i].response, oRequests[i].attempt).error)

\* the wait C28 expects after a 429 on attempt k
C28_Wait(req) ==
  IF req.response.retryAfter # None
    THEN The(req.response.retryAfter).wait * 1000
    ELSE 2000 * Pow2(req.attempt)

\* the parts of C28 about the number of requests, the backoff without a
\* header, the fourth 429 and a successful response
OcrRetryBounded ==
  /\ Len(oRequests) <= 4
  /\ Len(oRequests) = 4 => oPc \in {"returned", "thrown"}
  /\ \A i \in 1..Len(oRequests) :
       LET req == oRequests[i]
       IN  /\ req.attempt = i - 1
           /\ (req.response.status = 429 /\ i <= 3 /\ req.response.retryAfter = None) =>
                /\ req.delay = 2000 * Pow2(i - 1)
                /\ (oPc = "loop" \/ Len(oRequests) > i)
           /\ (req.response.status = 429 /\ i = 4) =>
                (oPc = "thrown" /\ oError = Some(RateLimitExceeded))
           /\ (req.response.kind = "text" /\ Len(Trim(req.response.text)) >= 3) =>
                /\ i = Len(oRequests)
                /\ oPc = "returned" /\ oText = Some(Trim(req.response.text))

(* C28 as stated: extractTextFromImage ends after at most 4 requests; a 429 on
   attempt k (0, 1, 2) is followed by a wait of Retry-After seconds when that
   header is present and of 2000 * 2^k ms otherwise; a 429 on the 4th request
   throws the rate-limit-exceeded error; a successful response returns its
   text with no further request. *)
C28_RetryProtocol ==
  /\ OcrRetryBounded
  /\ \A i \in 1..Len(oRequests) :
       (oRequests[i].response.status = 429 /\ i <= 3) =>
         oRequests[i].delay = C28_Wait(oRequests[i])

\* a step in which a call issues createAssistant for a name
C21_Creates(c, name) ==
  /\ chCalls[c].pc # "createAssistant"
  /\ chCalls'[c].pc = "createAssistant"
  /\ assistantNameOf(chCalls'[c].mode) = name

(* C21 as stated: for every interleaving of concurrent get-or-create calls for
   one assistant name, all calls for the name return one and the same id; the
   id cached for a name is one that a creation for that name produced and
   returned; and while an entry is cached no creation is issued for its name. *)
C21_CacheUnderRaces ==
  /\ [](\A p \in chReturned, q \in chReturned : p[1] = q[1] => p[2] = q[2])
  /\ [](\A name \in AssistantNames :
          chCache[name] # None =>
            /\ <<name, The(chCache[name])>> \in chReturned
            /\ chAssistants[The(chCache[name])].name = name)
  /\ [][\A name \in AssistantNames, c \in ChatCallers :
          chCache[name] # None => ~C21_Creates(c, name)]_vars

(* C22 as stated: the answer to a chat request is produced under the system
   prompt built from that request's own context and mode, never from the
   context an earlier request supplied. *)
C22_ChatIsolation ==
  \A c \in ChatCallers :
    chCalls[c].reply # None =>
      The(chCalls[c].reply).systemPrompt =
        systemPromptOf(chCalls[c].contextText, chCalls[c].mode)

\* no two sources of the list have the same URL
Deduplicated(list) ==
  \A i \in 1..Len(list), j \in 1..Len(list) : list[i].url = list[j].url => i = j

(* C23 as stated: every source list handed back by the search layer
   (searchSources, searchWithAI with each of its parsing fallbacks, and
   searchCombined) holds no two sources with the same URL, whatever the raw
   results hold. *)
C23_SourceDeduplication ==
  /\ (ssCall # None /\ ~The(ssCall).result.threw) => Deduplicated(The(ssCall).result.value)
  /\ (slCall # None /\ ~The(slCall).result.threw) => Deduplicated(The(slCall).result.value)


(* ------------------------- bias aggregation ---------------------------- *)
Aggregated == baCall # None
AggregatedBiases ==
  [i \in 1..Len(The(baCall).assessments) |-> The(baCall).assessments[i].politicalBias]

\* the population variance of a list of integers, in closed form:
\* (n * sum of squares - square of the sum) / n^2
populationVariance(values) ==
  LET n == Len(values)
  IN  Q(n * SumInts([i \in 1..n |-> values[i] * values[i]])
          - SumInts(values) * SumInts(values), n * n)

\* C24: Bias dispersion outputs. For every set of assessment biases in [-1,1]
\* the aggregator reports confidence = clamp(1 - stddev/2, 0, 1), stddev being
\* the population standard deviation of all assessment biases, agreement "high"
\* when stddev < 0.2, "medium" when 0.2 <= stddev < 0.4 and "low" otherwise, and
\* each per-perspective consensus lies in [0,1]. (With biases in hundredths,
\* stddev < 0.2 is variance < 400, stddev < 0.4 is variance < 1600, and
\* 1 - stddev/2 is 1 - sqrt(variance / 40000).)
C24_BiasDispersion ==
  Aggregated =>
    LET variance == populationVariance(AggregatedBiases)
        r == The(baCall).result
    IN  /\ \A i \in 1..Len(AggregatedBiases) : AggregatedBiases[i] \in -100..100
        /\ r.confidence = [oneMinusSqrtOf |-> RMin(One, RMul(variance, Q(1, 40000)))]
        /\ r.agreement = IF RLess(variance, Q(400, 1)) THEN "high"
                         ELSE IF RLess(variance, Q(1600, 1)) THEN "medium"
                         ELSE "low"
        /\ \A p \in {"usLeft", "usRight", "international"} :
             r.perspectives[p].consensus \in 0..100

\* the same, of the nine-assessment aggregator alone
NineBiasDispersion ==
  (Aggregated /\ The(baCall).fn = "detectBiasMultiPerspective") => C24_BiasDispersion

\* the label obtained by thresholding a bias value given in hundredths
labelOfBias(value) ==
  IF value < -50 THEN "left"
  ELSE IF value < -15 THEN "slight_left"
  ELSE IF value > 50 THEN "right"
  ELSE IF value > 15 THEN "slight_right"
  ELSE "center"

\* C25: Bias label consistency. In every BiasSignals returned by the bias
\* aggregator, overallBias is the label obtained by thresholding the
\* politicalBias value carried in that same BiasSignals: below -0.5 "left",
\* below -0.15 "slight_left", above 0.5 "right", above 0.15 "slight_right",
\* otherwise "center".
C25_BiasLabelConsistency ==
  Aggregated =>
    The(baCall).result.overallBias = labelOfBias(The(baCall).result.politicalBias)

\* the label does follow the mean of the assessment biases before rounding
LabelFollowsMean ==
  Aggregated =>
    LET total == SumInts(AggregatedBiases)
        n == Len(AggregatedBiases)
    IN  The(baCall).result.overallBias =
          (IF total < -50 * n THEN "left"
           ELSE IF total < -15 * n THEN "slight_left"
           ELSE IF total > 50 * n THEN "right"
           ELSE IF total > 15 * n THEN "slight_right"
           ELSE "center")

\* what slot i of the assessment list can hold: the entry of call i - 1
EntriesOfCall(i) ==
  {settledEntry(i - 1, assessBiasWithUpdate(i - 1, o)) : o \in AssessmentOutcomes}

ExampleBiases == <<10, 10, 10, -10, -10, -10, 0, 0, 0>>

\* C26: Order independence of bias aggregation. For a fixed set of 9 assessment
\* outcomes the aggregated politicalBias, sensationalism, confidence, agreement,
\* overallBias, per-perspective values and keySignals are the same for every
\* order in which the 9 concurrent calls complete: whatever the order, slot i
\* holds the outcome of call i and the result is the aggregate of the slots.
\* Aggregating the same 9 outcomes always gives the same output; for biases
\* [0.1,0.1,0.1,-0.1,-0.1,-0.1,0,0,0] the mean is 0, the label is center and
\* the agreement is high.
C26_OrderIndependence ==
  /\ \A i \in 1..9 : bEntries[i] # None => The(bEntries[i]) \in EntriesOfCall(i)
  /\ bPc = "returned" =>
       /\ \A i \in 1..9 : bEntries[i] # None
       /\ The(bResult).biasSignals =
            aggregateBias([i \in 1..9 |-> The(bEntries[i]).assessment])
       /\ The(bResult).perspectives = The(bResult).biasSignals.perspectives
  /\ Aggregated /\ The(baCall).fn = "detectBiasMultiPerspective" =>
       /\ The(baCall).result = aggregateBias(The(baCall).assessments)
       /\ AggregatedBiases = ExampleBiases =>
            /\ The(baCall).result.politicalBias = 0
            /\ The(baCall).result.overallBias = "center"
            /\ The(baCall).result.agreement = "high"

\* the analysis returned after its assessments completed out of call order,
\* all nine assessed
C26_Witness ==
  /\ bPc = "returned" /\ bOutOfOrder
  /\ \A i \in 1..9 : The(bEntries[i]).assessment.reasoning = "assessed"
  /\ The(bResult).biasSignals.agreement = "low"

Paired(biasSignals) ==
  ("confidence" \in DOMAIN biasSignals) <=> ("agreement" \in DOMAIN biasSignals)

\* C27: BiasSignals pairing. In every BiasSignals value the backend produces
\* (the aggregator's output, the orchestrator's placeholder for verified
\* claims, the bias block of unable-to-verify claims), confidence and
\* agreement are either both present or both absent.
C27_BiasSignalsPairing ==
  /\ Aggregated => Paired(The(baCall).result)
  /\ ReturnedResult =>
       \A c \in 1..Len(TheResult.claims) : Paired(TheResult.claims[c].biasSignals)
  /\ Paired(PlaceholderBias) /\ Paired(UnableBias)

\* the nine-assessment aggregator has returned signals that carry both
C27_Witness ==
  /\ Aggregated /\ The(baCall).fn = "detectBiasMultiPerspective"
  /\ AggregatedBiases = ExampleBiases
  /\ {"confidence", "agreement"} \subseteq DOMAIN The(baCall).result

(* ------------------------- the explanation text ------------------------- *)
\* the number of models whose verdict is the claim's final verdict
AgreeingModels(claim) ==
  Cardinality({m \in 1..Len(claim.modelVerdicts) :
                 claim.modelVerdicts[m].verdict = claim.verdict})

\* C29: Explanation count. For every verified claim and every triple of model
\* verdicts, the count k in the explanation text "k/3 models agree with
\* "<finalVerdict>" verdict" equals the number of models whose verdict equals
\* the claim's final verdict, whichever of likely_true, mixed or
\* likely_misleading the final verdict is.
C29_ExplanationCount ==
  ReturnedResult =>
    \A c \in 1..Len(TheResult.claims) :
      LET claim == TheResult.claims[c]
      IN  ("kind" \in DOMAIN claim.explanation /\ claim.explanation.kind = "reasoning") =>
            /\ claim.explanation.verdict = claim.verdict
            /\ claim.explanation.count = AgreeingModels(claim)

\* the count does equal the number of agreeing models when the final verdict
\* is likely_true
ExplanationCountWhenTrue ==
  ReturnedResult =>
    \A c \in 1..Len(TheResult.claims) :
      LET claim == TheResult.claims[c]
      IN  ("kind" \in DOMAIN claim.explanation /\ claim.explanation.kind = "reasoning"
             /\ claim.verdict = "likely_true") =>
            claim.explanation.count = AgreeingModels(claim)

(* ------------------------------ the client ----------------------------- *)
InFlight == {t \in 1..Len(tasks) : tasks[t].pc = "in flight"}

\* C30: Client analysis state under overlapping requests. For every
\* interleaving of analyzeScreenshot calls, resetForNewScreenshot calls and
\* completions of the in-flight analysis tasks, isAnalyzing is false only when
\* no analysis task is still in flight, and a non-nil analysisResult is always
\* the result of the most recently started analysis (the one for the current
\* screenshotImage), never the late result of an earlier screenshot or of an
\* analysis started before the last reset.
C30_ClientAnalysisState ==
  /\ ~isAnalyzing => InFlight = {}
  /\ analysisResult # None =>
       /\ The(analysisResult).jobId = Len(tasks)
       /\ ~tasks[Len(tasks)].reset
       /\ screenshotImage = Some(The(analysisResult).image)

\* with one analysis started and no reset, the statement does hold
SingleAnalysisState ==
  (Len(tasks) = 1 /\ ~tasks[1].reset) => C30_ClientAnalysisState
====
